---- MODULE Spec2Model ----
(***************************************************************************)
(* Model of the documentation pipeline of specra-sdk:                      *)
(*   - the path sanitizer           (src/src/lib/api-parser.types.ts)      *)
(*   - the content resolver/scanner (src/src/lib/mdx.ts)                   *)
(*   - the sidebar order / adjacent-document lookup (src/src/lib/mdx.ts,   *)
(*     tree construction as in src/unnamed/part_012)                       *)
(*   - the cache layer              (src/src/lib/mdx-cache.ts)             *)
(*                                                                         *)
(* Strings of the program are sequences of one-character strings, so that  *)
(* includes/startsWith/split/replace/decode are computed and not assumed.  *)
(* Paths follow Node's posix flavour of the path module.                   *)
(***************************************************************************)
EXTENDS Integers, Sequences, FiniteSets, TLC

VARIABLES
  \* ---- sanitizer harness
  userPath,          \* the raw argument of sanitizePath
  sanitizeResult,    \* what the call produced ("none" before the call)
  allowedRoot,       \* the directory argument of validatePathWithinDirectory
  within,            \* what validatePathWithinDirectory(userPath, allowedRoot) returned
  \* ---- content resolver / corpus scanner
  fsFiles,           \* the files under DOCS_DIR: relative path -> parsed file
  mdxOrder,          \* order in which readdirSync enumerates the files
  i18n,              \* config.features.i18n as getI18nConfig returns it
  nodeEnv,           \* process.env.NODE_ENV
  call,              \* the last entry-point call and its arguments
  result,            \* what that call returned
  fsLog,             \* filesystem accesses of that call, in order
  \* ---- sidebar order
  allDocs,           \* the document list handed to getAdjacentDocs
  currentSlug,
  adjacent,          \* the {previous, next} it returned
  isCategory,        \* what isCategoryPage returned for the same slug and list
  sidebar,           \* the tree the sidebar built from the list
  \* ---- cache layer
  now,               \* Date.now()
  versionsCache,
  allDocsCache,
  docBySlugCache,
  watchersInitialized,
  watchCalls,        \* number of fs.watch subscriptions attempted
  watching,          \* whether the fs.watch subscription is in place
  pending,           \* cache misses whose resolver call has not returned yet
  fsGen,             \* generation of the content on disk
  accessCount,       \* number of calls of the cached entry points so far
  lastAccess,        \* the cache access made by the last step, None if it made none
  \* ---- security proxy
  requestPath,       \* request.nextUrl.pathname
  proxyOptions,      \* the options createSecurityProxy was given
  response,          \* what securityProxy returned, None before the request
  \* ---- development watch endpoint (SSE)
  streams,           \* the ReadableStreams GET created, in order of creation
  activeWatchers,    \* the module-level Set of FSWatchers, by stream index
  openWatchers,      \* the FSWatchers that have not been closed
  lastStatus,        \* status of the Response of the last GET, 0 before any
  \* ---- corpus scan in flight
  promises,          \* the per-file promises handed to Promise.all, by file index
  settled            \* the file indexes in the order their promises settled

sanitizeVars == <<userPath, sanitizeResult, allowedRoot, within>>
docsVars     == <<fsFiles, mdxOrder, i18n, nodeEnv, call, result, fsLog>>
sidebarVars  == <<allDocs, currentSlug, adjacent, isCategory, sidebar>>
cacheVars    == <<now, versionsCache, allDocsCache, docBySlugCache,
                  watchersInitialized, watchCalls, watching, pending, fsGen,
                  accessCount, lastAccess>>
proxyVars    == <<requestPath, proxyOptions, response>>
sseVars      == <<streams, activeWatchers, openWatchers, lastStatus>>
scanVars     == <<promises, settled>>
vars == <<sanitizeVars, docsVars, sidebarVars, cacheVars, proxyVars, sseVars, scanVars>>

-----------------------------------------------------------------------------
(* String helpers (JavaScript String.prototype)                            *)

\* An absent value (undefined, null) of a record-valued variable.
None == [none |-> TRUE]

Includes(s, pat) ==
  \E i \in 1..(Len(s) - Len(pat) + 1) : SubSeq(s, i, i + Len(pat) - 1) = pat

StartsWith(s, p) == Len(s) >= Len(p) /\ SubSeq(s, 1, Len(p)) = p

EndsWith(s, p) == Len(s) >= Len(p) /\ SubSeq(s, Len(s) - Len(p) + 1, Len(s)) = p

\* s.replace(/\\/g, "/")
ReplaceBackslashes(s) == [i \in 1..Len(s) |-> IF s[i] = "\\" THEN "/" ELSE s[i]]

\* s.split(sep) for a one-character separator: always at least one part
RECURSIVE SplitFrom(_, _, _, _)
SplitFrom(s, sep, i, cur) ==
  IF i > Len(s) THEN <<cur>>
  ELSE IF s[i] = sep THEN <<cur>> \o SplitFrom(s, sep, i + 1, <<>>)
  ELSE SplitFrom(s, sep, i + 1, Append(cur, s[i]))

Split(s, sep) == SplitFrom(s, sep, 1, <<>>)

\* parts.join(sep)
RECURSIVE Join(_, _)
Join(parts, sep) ==
  IF Len(parts) = 0 THEN <<>>
  ELSE IF Len(parts) = 1 THEN parts[1]
  ELSE parts[1] \o <<sep>> \o Join(Tail(parts), sep)

RECURSIVE Concat(_)
Concat(ss) == IF Len(ss) = 0 THEN <<>> ELSE ss[1] \o Concat(Tail(ss))

-----------------------------------------------------------------------------
(* decodeURIComponent                                                      *)

HexLower == <<"0","1","2","3","4","5","6","7","8","9","a","b","c","d","e","f">>
HexUpper == <<"0","1","2","3","4","5","6","7","8","9","A","B","C","D","E","F">>

IsHex(c) == \E i \in 1..16 : HexLower[i] = c \/ HexUpper[i] = c

HexVal(c) == (CHOOSE i \in 1..16 : HexLower[i] = c \/ HexUpper[i] = c) - 1

\* printable ASCII, 0x20 .. 0x7e
Printable ==
  << " ","!","\"","#","$","%","&","'","(",")","*","+",",","-",".","/",
     "0","1","2","3","4","5","6","7","8","9",":",";","<","=",">","?",
     "@","A","B","C","D","E","F","G","H","I","J","K","L","M","N","O",
     "P","Q","R","S","T","U","V","W","X","Y","Z","[","\\","]","^","_",
     "<bq>","a","b","c","d","e","f","g","h","i","j","k","l","m","n","o",
     "p","q","r","s","t","u","v","w","x","y","z","{","|","}","~" >>

ByteChar(b) ==
  IF b >= 32 /\ b <= 126 THEN Printable[b - 31] ELSE IF b = 0 THEN "<nul>" ELSE "<ctl>"

URIError == "URIError"

Ok(p) == [ok |-> TRUE, path |-> p]
Err(e) == [ok |-> FALSE, error |-> e]

\* Decodes %XX escapes left to right, once.  "%" not followed by two hex
\* digits is malformed.  A byte >= 0x80 starts a UTF-8 sequence whose
\* continuation bytes (%80..%BF) must follow; the inputs drawn below have
\* no hex digit 8-b in that place, and a lone lead byte is malformed.
RECURSIVE DecodeFrom(_, _, _)
DecodeFrom(s, i, acc) ==
  IF i > Len(s) THEN Ok(acc)
  ELSE IF s[i] # "%" THEN DecodeFrom(s, i + 1, Append(acc, s[i]))
  ELSE IF i + 2 > Len(s) \/ ~IsHex(s[i + 1]) \/ ~IsHex(s[i + 2]) THEN Err(URIError)
  ELSE LET b == 16 * HexVal(s[i + 1]) + HexVal(s[i + 2])
       IN IF b >= 128 THEN Err(URIError)
          ELSE DecodeFrom(s, i + 3, Append(acc, ByteChar(b)))

decodeURIComponent(s) == DecodeFrom(s, 1, <<>>)

-----------------------------------------------------------------------------
(* path (posix)                                                            *)

isAbsolute(p) == Len(p) > 0 /\ p[1] = "/"

DotDot == <<".", ".">>

\* normalizeString: resolves "." and ".." segments; a ".." that has nothing
\* to pop is kept when allowAboveRoot, dropped otherwise.
RECURSIVE NormalizeSegs(_, _, _)
NormalizeSegs(segs, acc, allowAboveRoot) ==
  IF Len(segs) = 0 THEN acc
  ELSE LET seg == Head(segs) rest == Tail(segs) IN
    IF seg = <<>> \/ seg = <<".">> THEN NormalizeSegs(rest, acc, allowAboveRoot)
    ELSE IF seg = DotDot THEN
      IF Len(acc) > 0 /\ acc[Len(acc)] # DotDot
      THEN NormalizeSegs(rest, SubSeq(acc, 1, Len(acc) - 1), allowAboveRoot)
      ELSE IF allowAboveRoot
      THEN NormalizeSegs(rest, Append(acc, DotDot), allowAboveRoot)
      ELSE NormalizeSegs(rest, acc, allowAboveRoot)
    ELSE NormalizeSegs(rest, Append(acc, seg), allowAboveRoot)

normalize(p) ==
  IF Len(p) = 0 THEN <<".">>
  ELSE LET abs == isAbsolute(p)
           trailing == p[Len(p)] = "/"
           body == Join(NormalizeSegs(Split(p, "/"), <<>>, ~abs), "/")
       IN IF Len(body) = 0
          THEN (IF abs THEN <<"/">> ELSE IF trailing THEN <<".", "/">> ELSE <<".">>)
          ELSE (IF abs THEN <<"/">> ELSE <<>>) \o body
               \o (IF trailing THEN <<"/">> ELSE <<>>)

\* path.join(a, b)
join(a, b) ==
  IF Len(a) = 0 THEN normalize(b)
  ELSE IF Len(b) = 0 THEN normalize(a)
  ELSE normalize(a \o <<"/">> \o b)

-----------------------------------------------------------------------------
(* sanitizePath                                                            *)

Enc2e == <<"%", "2", "e">>
Enc252e == <<"%", "2", "5", "2", "e">>

TraversalDetected == "Path traversal detected"
InvalidPath == "Invalid path detected"

\* sanitizePath from the test of the normalized path on
sanitizePathNormalized(normalized) ==
  IF StartsWith(normalized, DotDot)
     \/ Includes(normalized, <<"/", ".", ".", "/">>)
  THEN Err(InvalidPath)
  ELSE Ok(normalized)

\* sanitizePath without the "..\\" test
sanitizePathNoBackslashTestDecoded(dec) ==
  IF ~dec.ok THEN dec
  ELSE IF \/ Includes(dec.path, <<".", ".", "/">>)
          \/ Includes(dec.path, Enc2e \o Enc2e)
          \/ Includes(dec.path, Enc252e \o Enc252e)
          \/ isAbsolute(dec.path)
  THEN Err(TraversalDetected)
  ELSE sanitizePathNormalized(ReplaceBackslashes(normalize(dec.path)))

sanitizePathNoBackslashTest(raw) == sanitizePathNoBackslashTestDecoded(decodeURIComponent(raw))

\* sanitizePath from its first test on, given the outcome of
\* decodeURIComponent
sanitizePathDecoded(dec) ==
  IF ~dec.ok THEN dec
  ELSE IF \/ Includes(dec.path, <<".", ".", "/">>)
          \/ Includes(dec.path, <<".", ".", "\\">>)
          \/ Includes(dec.path, Enc2e \o Enc2e)
          \/ Includes(dec.path, Enc252e \o Enc252e)
          \/ isAbsolute(dec.path)
  THEN Err(TraversalDetected)
  ELSE sanitizePathNormalized(ReplaceBackslashes(normalize(dec.path)))

sanitizePath(raw) == sanitizePathDecoded(decodeURIComponent(raw))

-----------------------------------------------------------------------------
(* Content security (validateMDXSecurity), on the bodies the model draws   *)

IsSpace(c) == c \in {" ", "\n", "\t"}

ScriptOpen == <<"<", "s", "c", "r", "i", "p", "t">>
ScriptClose == <<"<", "/", "s", "c", "r", "i", "p", "t", ">">>
JsProto == <<"j", "a", "v", "a", "s", "c", "r", "i", "p", "t", ":">>

\* first index >= i at which pat occurs in s, 0 if none
RECURSIVE IndexFrom(_, _, _)
IndexFrom(s, pat, i) ==
  IF i + Len(pat) - 1 > Len(s) THEN 0
  ELSE IF SubSeq(s, i, i + Len(pat) - 1) = pat THEN i
  ELSE IndexFrom(s, pat, i + 1)

Quotes == {"\"", "'"}
WordChars ==
  {"a", "b", "c", "d", "e", "f", "g", "h", "i", "j", "k", "l", "m", "n", "o", "p", "q",
   "r", "s", "t", "u", "v", "w", "x", "y", "z", "0", "1", "2", "3", "4", "5", "6", "7",
   "8", "9", "_"}

\* the first index >= i whose character is not of the class: the class is
\* chars if member, every character but chars otherwise; Len(s) + 1 if none
RECURSIVE Skip(_, _, _, _)
Skip(s, i, chars, member) ==
  IF i > Len(s) \/ ((s[i] \in chars) # member) THEN i
  ELSE Skip(s, i + 1, chars, member)

\* /on\w+\s*=/ matches at i
OnHandlerAt(s, i) ==
  /\ i + 1 <= Len(s) /\ s[i] = "o" /\ s[i + 1] = "n"
  /\ Skip(s, i + 2, WordChars, TRUE) > i + 2
  /\ Skip(s, Skip(s, i + 2, WordChars, TRUE), {" ", "\n", "\t"}, TRUE) <= Len(s)
  /\ s[Skip(s, Skip(s, i + 2, WordChars, TRUE), {" ", "\n", "\t"}, TRUE)] = "="

\* DANGEROUS_PATTERNS that a body over the model's alphabet can match:
\* /<script[>\s]/, /javascript:/ and /on\w+\s*=/
scanMDXForDangerousPatterns(content) ==
  (IF \E i \in 1..Len(content) :
        /\ i + Len(ScriptOpen) <= Len(content)
        /\ SubSeq(content, i, i + Len(ScriptOpen) - 1) = ScriptOpen
        /\ (content[i + Len(ScriptOpen)] = ">" \/ IsSpace(content[i + Len(ScriptOpen)]))
   THEN <<"script">> ELSE <<>>)
  \o (IF Includes(content, JsProto) THEN <<"javascript:">> ELSE <<>>)
  \o (IF \E i \in 1..Len(content) : OnHandlerAt(content, i) THEN <<"on\\w+\\s*=">> ELSE <<>>)

\* content.replace(/<script[^>]*>[\s\S]*?<\/script>/gi, "")
RECURSIVE RemoveScripts(_)
RemoveScripts(s) ==
  LET open == IndexFrom(s, ScriptOpen, 1) IN
  IF open = 0 THEN s
  ELSE LET gt == IndexFrom(s, <<">">>, open + Len(ScriptOpen)) IN
    IF gt = 0 THEN s
    ELSE LET close == IndexFrom(s, ScriptClose, gt + 1) IN
      IF close = 0
      THEN SubSeq(s, 1, open) \o RemoveScripts(SubSeq(s, open + 1, Len(s)))
      ELSE SubSeq(s, 1, open - 1)
           \o RemoveScripts(SubSeq(s, close + Len(ScriptClose), Len(s)))

\* sanitized.replace(/javascript:/gi, "")
RECURSIVE RemoveJsProto(_)
RemoveJsProto(s) ==
  LET at == IndexFrom(s, JsProto, 1) IN
  IF at = 0 THEN s
  ELSE SubSeq(s, 1, at - 1) \o RemoveJsProto(SubSeq(s, at + Len(JsProto), Len(s)))

\* the last index of the match of /\s+on\w+\s*=\s*["'][^"']*["']/ that begins
\* at i, 0 if there is none; every quantifier of the expression is followed
\* by a character outside its class, so the match is the greedy one
HandlerEnd(s, i) ==
  LET on == Skip(s, i, {" ", "\n", "\t"}, TRUE)
      eq == Skip(s, Skip(s, on + 2, WordChars, TRUE), {" ", "\n", "\t"}, TRUE)
      quote == Skip(s, eq + 1, {" ", "\n", "\t"}, TRUE)
      last == Skip(s, quote + 1, Quotes, FALSE)
  IN IF /\ on > i /\ OnHandlerAt(s, on)
        /\ quote <= Len(s) /\ s[quote] \in Quotes
        /\ last <= Len(s)
     THEN last ELSE 0

\* sanitized.replace(/\s+on\w+\s*=\s*["'][^"']*["']/gi, "")
RECURSIVE RemoveEventHandlers(_, _)
RemoveEventHandlers(s, i) ==
  IF i > Len(s) THEN <<>>
  ELSE IF HandlerEnd(s, i) = 0 THEN <<s[i]>> \o RemoveEventHandlers(s, i + 1)
  ELSE RemoveEventHandlers(s, HandlerEnd(s, i) + 1)

sanitizeMDXContent(content) ==
  RemoveJsProto(RemoveEventHandlers(RemoveScripts(content), 1))

validateMDXSecurityChecked(content, strictMode, issues) ==
  IF strictMode /\ Len(issues) > 0
  THEN [valid |-> FALSE, issues |-> issues, sanitized |-> <<>>]
  ELSE [valid |-> TRUE, issues |-> issues, sanitized |-> sanitizeMDXContent(content)]

validateMDXSecurity(content, strictMode) ==
  validateMDXSecurityChecked(content, strictMode, scanMDXForDangerousPatterns(content))

-----------------------------------------------------------------------------
(* Content resolver (mdx.ts)                                               *)

DOCS_DIR == <<"/", "d", "o", "c", "s">>
MdxExt == <<".", "m", "d", "x">>
IndexName == <<"i", "n", "d", "e", "x">>
EN == <<"e", "n">>
FR == <<"f", "r">>

\* optional numbers: <<>> is undefined, <<n>> is n;  a ?? b
Coalesce(a, b) == IF a # <<>> THEN a ELSE b

\* content.trim().split(/\s+/).length
RECURSIVE CountWords(_, _, _)
CountWords(s, i, inWord) ==
  IF i > Len(s) THEN 0
  ELSE IF IsSpace(s[i]) THEN CountWords(s, i + 1, FALSE)
  ELSE (IF inWord THEN 0 ELSE 1) + CountWords(s, i + 1, TRUE)

calculateReadingTime(content) ==
  LET n == CountWords(content, 1, FALSE)
      words == IF n = 0 THEN 1 ELSE n
  IN [minutes |-> (words + 199) \div 200, words |-> words]

\* path.resolve(dir, p), then the trailing separator dropped
resolve(dir, p) ==
  LET n == normalize(IF isAbsolute(p) THEN p ELSE dir \o <<"/">> \o p)
  IN IF Len(n) > 1 /\ n[Len(n)] = "/" THEN SubSeq(n, 1, Len(n) - 1) ELSE n

validatePathWithinDirectory(filePath, allowedDir) ==
  LET resolvedPath == resolve(allowedDir, filePath)
      resolvedDir == resolve(allowedDir, <<>>)
  IN StartsWith(resolvedPath, resolvedDir \o <<"/">>) \/ resolvedPath = resolvedDir

\* a filesystem access made while serving a call; sanitized tells whether
\* the caller's version and slug had passed sanitizePath when it was made
Access(op, path, sanitized) == [op |-> op, path |-> path, sanitized |-> sanitized]

Ret(val, log) == [val |-> val, log |-> log]

\* the outcome of a block that threw error after the accesses of log
Thrown(error, log) == [thrown |-> error, log |-> log]

IsThrown(r) == "thrown" \in DOMAIN r

\* try { return r } catch (error) { return fallback }
Catch(r, fallback) == IF IsThrown(r) THEN Ret(fallback, r.log) ELSE r

CustomSlug(originalSlug, dataSlug) ==
  LET customSlug == IF Len(dataSlug) > 0 /\ dataSlug[1] = "/" THEN Tail(dataSlug) ELSE dataSlug
      parts == Split(originalSlug, "/")
  IN IF Len(parts) > 1
     THEN Join(SubSeq(parts, 1, Len(parts) - 1) \o <<customSlug>>, "/")
     ELSE customSlug

\* the filesystem accesses of readDocFromFile on a file that exists
readDocFromFileLog(filePath) ==
  <<Access("existsSync", filePath, TRUE), Access("readFileSync", filePath, TRUE)>>

\* the return statement of readDocFromFile
readDocFromFileBuilt(filePath, originalSlug, data, safeContent, rt) ==
  Ret([ slug |-> IF data.slug # <<>> THEN CustomSlug(originalSlug, data.slug)
                 ELSE originalSlug,
        filePath |-> originalSlug,
        title |-> IF data.title # <<>> THEN data.title ELSE originalSlug,
        meta |-> [ slug |-> data.slug,
                   sidebar_position |-> data.sidebar_position,
                   order |-> data.order,
                   draft |-> data.draft,
                   tab_group |-> data.tab_group,
                   locale |-> <<>>,
                   content |-> safeContent,
                   reading_time |-> rt.minutes,
                   word_count |-> rt.words ],
        content |-> safeContent,
        categoryLabel |-> <<>>,
        categoryPosition |-> <<>>,
        categoryCollapsible |-> <<>>,
        categoryCollapsed |-> <<>>,
        categoryIcon |-> <<>>,
        categoryTabGroup |-> <<>> ], readDocFromFileLog(filePath))

\* readDocFromFile from `const safeContent` on
readDocFromFileSafe(filePath, originalSlug, data, safeContent) ==
  readDocFromFileBuilt(filePath, originalSlug, data, safeContent,
                       calculateReadingTime(safeContent))

\* readDocFromFile after validateMDXSecurity
readDocFromFileParsed(env, filePath, originalSlug, file, securityCheck) ==
  IF ~securityCheck.valid /\ env = "production" THEN Ret(None, readDocFromFileLog(filePath))
  ELSE readDocFromFileSafe(filePath, originalSlug, file.data,
                           IF securityCheck.sanitized # <<>>
                           THEN securityCheck.sanitized ELSE file.content)

\* the try block of readDocFromFile: readFileSync throws on a file that
\* cannot be read, matter() on front matter that cannot be parsed
readDocFromFileTry(fs, env, filePath, originalSlug) ==
  IF filePath \notin DOMAIN fs
  THEN Ret(None, <<Access("existsSync", filePath, TRUE)>>)
  ELSE IF ~validatePathWithinDirectory(filePath, DOCS_DIR)
  THEN Ret(None, <<Access("existsSync", filePath, TRUE)>>)
  ELSE IF fs[filePath].unreadable THEN Thrown("EACCES", readDocFromFileLog(filePath))
  ELSE IF fs[filePath].malformed THEN Thrown("YAMLException", readDocFromFileLog(filePath))
  ELSE readDocFromFileParsed(env, filePath, originalSlug, fs[filePath],
                             validateMDXSecurity(fs[filePath].content, env = "production"))

readDocFromFile(fs, env, filePath, originalSlug) ==
  Catch(readDocFromFileTry(fs, env, filePath, originalSlug), None)

\* i18n configuration: None, or [defaultLocale, locales, prefixDefault]
HasI18n(cfg) == cfg # None
DefaultLocale(cfg) == IF HasI18n(cfg) THEN cfg.defaultLocale ELSE <<>>
IsLocale(cfg, code) == HasI18n(cfg) /\ \E i \in 1..Len(cfg.locales) : cfg.locales[i] = code

\* getDocBySlug after the read of the default file: def is its outcome, loc
\* the outcome of the read of the localized file
getDocBySlugDefault(cfg, targetLocale, loc, def) ==
  IF def.val # None /\ (targetLocale = DefaultLocale(cfg) \/ ~HasI18n(cfg))
  THEN Ret([def.val EXCEPT
              !.slug = IF /\ HasI18n(cfg)
                          /\ (cfg.prefixDefault \/ targetLocale # cfg.defaultLocale)
                          /\ targetLocale # <<>>
                       THEN targetLocale \o <<"/">> \o def.val.slug
                       ELSE def.val.slug,
              !.meta.locale = IF targetLocale # <<>> THEN targetLocale ELSE EN],
           loc.log \o def.log)
  ELSE Ret(None, loc.log \o def.log)

\* getDocBySlug after the read of the localized file
getDocBySlugLocalized(fs, cfg, env, sanitizedSlug, targetLocale, basePath, loc) ==
  IF loc.val # None
  THEN Ret([loc.val EXCEPT
              !.slug = IF HasI18n(cfg)
                       THEN targetLocale \o <<"/">> \o sanitizedSlug
                       ELSE sanitizedSlug,
              !.meta.locale = targetLocale], loc.log)
  ELSE getDocBySlugDefault(cfg, targetLocale, loc,
         readDocFromFile(fs, env, join(basePath, sanitizedSlug \o MdxExt), sanitizedSlug))

\* getDocBySlug from `const basePath` on
getDocBySlugLookup(fs, cfg, env, sanitizedSlug, targetLocale, basePath) ==
  getDocBySlugLocalized(fs, cfg, env, sanitizedSlug, targetLocale, basePath,
    IF targetLocale # <<>>
    THEN readDocFromFile(fs, env,
           join(basePath, sanitizedSlug \o <<".">> \o targetLocale \o MdxExt),
           sanitizedSlug)
    ELSE Ret(None, <<>>))

\* the locale detection of getDocBySlug: peel says that the first segment
\* of the slug is a configured locale, rest is the slug without it
getDocBySlugDetected(fs, cfg, env, locale, sanitizedVersion, sanitized, parts, peel, rest) ==
  getDocBySlugLookup(fs, cfg, env,
    IF ~peel THEN sanitized ELSE IF rest = <<>> THEN IndexName ELSE rest,
    IF peel THEN parts[1] ELSE IF locale # <<>> THEN locale ELSE DefaultLocale(cfg),
    join(DOCS_DIR, sanitizedVersion))

getDocBySlugParts(fs, cfg, env, locale, sanitizedVersion, sanitized, parts) ==
  getDocBySlugDetected(fs, cfg, env, locale, sanitizedVersion, sanitized, parts,
                       HasI18n(cfg) /\ IsLocale(cfg, parts[1]), Join(Tail(parts), "/"))

\* getDocBySlug after its two sanitizePath calls
getDocBySlugSanitized(fs, cfg, env, locale, sv, ss) ==
  IF ~sv.ok THEN Thrown(sv.error, <<>>)
  ELSE IF ~ss.ok THEN Thrown(ss.error, <<>>)
  ELSE getDocBySlugParts(fs, cfg, env, locale, sv.path, ss.path, Split(ss.path, "/"))

\* the try block of getDocBySlug: sanitizePath throws on a rejected path
getDocBySlugTry(fs, cfg, env, slug, version, locale) ==
  getDocBySlugSanitized(fs, cfg, env, locale, sanitizePath(version), sanitizePath(slug))

\* variant of getDocBySlug without its catch clause
getDocBySlugUncaught(fs, cfg, env, slug, version, locale) ==
  getDocBySlugTry(fs, cfg, env, slug, version, locale)

getDocBySlug(fs, cfg, env, slug, version, locale) ==
  Catch(getDocBySlugTry(fs, cfg, env, slug, version, locale), None)

-----------------------------------------------------------------------------
(* Corpus scanner (mdx.ts getAllDocs)                                      *)

\* path.dirname of a relative path without trailing separator
dirname(p) ==
  LET parts == Split(p, "/")
  IN IF Len(parts) <= 1 THEN <<".">> ELSE Join(SubSeq(parts, 1, Len(parts) - 1), "/")

IsUnder(dir, p) == StartsWith(p, dir \o <<"/">>)

\* fs.existsSync on a directory: some file lies under it
DirExists(fs, dir) == \E f \in DOMAIN fs : IsUnder(dir, f)

\* fs.existsSync: the path names a file or a directory
PathExists(fs, p) == p \in DOMAIN fs \/ DirExists(fs, p)

\* findMdxFiles: the .mdx files under dir, as paths relative to dir
MdxFilesUnder(fs, dir) ==
  { SubSeq(f, Len(dir) + 2, Len(f)) : f \in { g \in DOMAIN fs : IsUnder(dir, g) /\ EndsWith(g, MdxExt) } }

RECURSIVE CommonPrefixLen(_, _)
CommonPrefixLen(a, b) ==
  IF Len(a) = 0 \/ Len(b) = 0 \/ a[1] # b[1] THEN 0
  ELSE 1 + CommonPrefixLen(Tail(a), Tail(b))

Folders(p) == LET parts == Split(p, "/") IN SubSeq(parts, 1, Len(parts) - 1)

\* findMdxFiles recurses into a directory where readdirSync lists it, so
\* the files of one directory subtree are enumerated next to each other;
\* the order of the entries of one directory is the filesystem's choice.
Enumerations(files) ==
  LET n == Cardinality(files) IN
  { o \in [1..n -> files] :
      /\ \A i, j \in 1..n : i # j => o[i] # o[j]
      /\ \A i, j, k \in 1..n : (i < j /\ j < k) =>
            CommonPrefixLen(Folders(o[i]), Folders(o[k]))
              <= CommonPrefixLen(Folders(o[i]), Folders(o[j])) }

CategoryFile == <<"_","c","a","t","e","g","o","r","y","_",".","j","s","o","n">>

\* getAllCategoryConfigs(version): folder path -> descriptor, read from the
\* category descriptor files under the version directory
getAllCategoryConfigs(fs, version) ==
  LET versionDir == join(DOCS_DIR, version)
      under == { f \in DOMAIN fs : IsUnder(versionDir, f) /\ EndsWith(f, <<"/">> \o CategoryFile)
                                   /\ ~fs[f].malformed /\ ~fs[f].unreadable }
  IN [ folder \in { dirname(SubSeq(f, Len(versionDir) + 2, Len(f))) : f \in under }
         |-> fs[versionDir \o <<"/">> \o folder \o <<"/">> \o CategoryFile].data ]

\* the logical path of an enumerated file and the locale its name carries
StripLocaleParts(cfg, noExt, parts) ==
  IF HasI18n(cfg) /\ IsLocale(cfg, parts[Len(parts)])
  THEN [path |-> Join(SubSeq(parts, 1, Len(parts) - 1), "."),
        isLocalized |-> TRUE, fileLocale |-> parts[Len(parts)]]
  ELSE [path |-> noExt, isLocalized |-> FALSE,
        fileLocale |-> IF HasI18n(cfg) THEN cfg.defaultLocale ELSE EN]

StripLocaleNoExt(cfg, noExt) == StripLocaleParts(cfg, noExt, Split(noExt, "."))

StripLocale(cfg, file) == StripLocaleNoExt(cfg, SubSeq(file, 1, Len(file) - Len(MdxExt)))

\* the body of the Promise.all callback for one enumerated file
\* the category overlay: the descriptor c of the document's folder is written
\* into the document
ScanFileOverlay(doc, log, c) ==
  Ret([doc EXCEPT !.categoryLabel = c.label,
                  !.categoryPosition = Coalesce(c.position, c.sidebar_position),
                  !.categoryCollapsible = c.collapsible,
                  !.categoryCollapsed = c.collapsed,
                  !.categoryIcon = c.icon,
                  !.categoryTabGroup = c.tab_group], log)

\* the callback after getDocBySlug returned got
ScanFileLoaded(categoryConfigs, originalFilePath, got, folderPath) ==
  IF got.val = None THEN got
  ELSE IF folderPath # <<".">> /\ folderPath \in DOMAIN categoryConfigs
  THEN ScanFileOverlay([got.val EXCEPT !.filePath = originalFilePath], got.log,
                       categoryConfigs[folderPath])
  ELSE Ret([got.val EXCEPT !.filePath = originalFilePath], got.log)

ScanFileNamed(fs, cfg, env, categoryConfigs, version, sl) ==
  ScanFileLoaded(categoryConfigs, sl.path,
                 getDocBySlug(fs, cfg, env, sl.path, version,
                              IF sl.isLocalized THEN sl.fileLocale ELSE <<>>),
                 dirname(sl.path))

ScanFile(fs, cfg, env, categoryConfigs, version, file) ==
  ScanFileNamed(fs, cfg, env, categoryConfigs, version, StripLocale(cfg, file))

\* the key of the deduplication map
LogicalSlug(cfg, slug) ==
  LET parts == Split(slug, "/")
  IN IF HasI18n(cfg) /\ IsLocale(cfg, parts[1]) THEN Join(Tail(parts), "/") ELSE slug

\* uniqueDocs: a Map, kept as a sequence of [key, doc] in insertion order;
\* Map.set on a present key replaces the value where the key already is
MapIndex(m, key) ==
  IF \E i \in 1..Len(m) : m[i].key = key
  THEN CHOOSE i \in 1..Len(m) : m[i].key = key
  ELSE 0

MapSet(m, key, doc) ==
  LET i == MapIndex(m, key)
  IN IF i = 0 THEN Append(m, [key |-> key, doc |-> doc])
     ELSE [m EXCEPT ![i] = [key |-> key, doc |-> doc]]

\* variant of MergeDoc in which the first stored document is never replaced
MergeDocFirstWins(cfg, targetLocale, m, doc) ==
  LET logicalSlug == LogicalSlug(cfg, doc.slug)
      i == MapIndex(m, logicalSlug)
  IN IF i = 0
     THEN IF doc.meta.locale = targetLocale THEN MapSet(m, logicalSlug, doc)
          ELSE IF HasI18n(cfg) /\ doc.meta.locale = cfg.defaultLocale
          THEN MapSet(m, logicalSlug, doc)
          ELSE m
     ELSE m

\* one step of validDocs.forEach
MergeDoc(cfg, targetLocale, m, doc) ==
  LET logicalSlug == LogicalSlug(cfg, doc.slug)
      i == MapIndex(m, logicalSlug)
  IN IF i = 0
     THEN IF doc.meta.locale = targetLocale THEN MapSet(m, logicalSlug, doc)
          ELSE IF HasI18n(cfg) /\ doc.meta.locale = cfg.defaultLocale
          THEN MapSet(m, logicalSlug, doc)
          ELSE m
     ELSE IF doc.meta.locale = targetLocale /\ m[i].doc.meta.locale # targetLocale
          THEN MapSet(m, logicalSlug, doc)
          ELSE m

RECURSIVE MergeAll(_, _, _, _)
MergeAll(cfg, targetLocale, m, docs) ==
  IF Len(docs) = 0 THEN m
  ELSE MergeAll(cfg, targetLocale, MergeDoc(cfg, targetLocale, m, Head(docs)), Tail(docs))

Unordered == 999

\* a.meta.sidebar_position ?? a.meta.order ?? 999
OrderHint(doc) == Coalesce(Coalesce(doc.meta.sidebar_position, doc.meta.order), <<Unordered>>)[1]

\* Array.prototype.sort with comparator a.key - b.key (stable), on a
\* sequence of [key, val]
\* variant of InsertByKey that places an element ahead of its ties
RECURSIVE InsertByKeyAheadOfTies(_, _)
InsertByKeyAheadOfTies(sorted, x) ==
  IF Len(sorted) = 0 THEN <<x>>
  ELSE IF sorted[Len(sorted)].key < x.key THEN Append(sorted, x)
  ELSE Append(InsertByKeyAheadOfTies(SubSeq(sorted, 1, Len(sorted) - 1), x), sorted[Len(sorted)])

RECURSIVE InsertByKey(_, _)
InsertByKey(sorted, x) ==
  IF Len(sorted) = 0 THEN <<x>>
  ELSE IF sorted[Len(sorted)].key <= x.key THEN Append(sorted, x)
  ELSE Append(InsertByKey(SubSeq(sorted, 1, Len(sorted) - 1), x), sorted[Len(sorted)])

RECURSIVE SortByKey(_)
SortByKey(xs) ==
  IF Len(xs) = 0 THEN <<>>
  ELSE InsertByKey(SortByKey(SubSeq(xs, 1, Len(xs) - 1)), xs[Len(xs)])

SortDocs(docs) ==
  LET keyed == [i \in 1..Len(docs) |-> [key |-> OrderHint(docs[i]), val |-> docs[i]]]
      sorted == SortByKey(keyed)
  IN [i \in 1..Len(sorted) |-> sorted[i].val]

\* variant of ScanAll that gives up at the first file without document
RECURSIVE ScanAllUntilNull(_, _, _, _, _, _)
ScanAllUntilNull(fs, cfg, env, categoryConfigs, version, files) ==
  IF Len(files) = 0 THEN <<>>
  ELSE IF ScanFile(fs, cfg, env, categoryConfigs, version, Head(files)).val = None
  THEN <<ScanFile(fs, cfg, env, categoryConfigs, version, Head(files))>>
  ELSE <<ScanFile(fs, cfg, env, categoryConfigs, version, Head(files))>>
       \o ScanAllUntilNull(fs, cfg, env, categoryConfigs, version, Tail(files))

\* Promise.all(mdxFiles.map(...)): the outcome of the callback for each file
RECURSIVE ScanAll(_, _, _, _, _, _)
ScanAll(fs, cfg, env, categoryConfigs, version, files) ==
  IF Len(files) = 0 THEN <<>>
  ELSE <<ScanFile(fs, cfg, env, categoryConfigs, version, Head(files))>>
       \o ScanAll(fs, cfg, env, categoryConfigs, version, Tail(files))

\* getAllDocs; mdxFiles is the enumeration findMdxFiles returned
\* the filter of validDocs: a document was returned and, outside
\* development, is not a draft
IsValidDoc(env, r) == r.val # None /\ (env = "development" \/ ~r.val.meta.draft)

ValidDocs(env, scanned, i) == IF IsValidDoc(env, scanned[i]) THEN <<scanned[i].val>> ELSE <<>>

MapValues(uniqueDocs) == [i \in 1..Len(uniqueDocs) |-> uniqueDocs[i].doc]

\* getAllDocs after Promise.all: deduplication and sort, with the accesses
\* of the scan
getAllDocsScanned(cfg, env, versionDir, targetLocale, scanned) ==
  Ret(SortDocs(MapValues(MergeAll(cfg, targetLocale, <<>>,
         Concat([i \in 1..Len(scanned) |-> ValidDocs(env, scanned, i)])))),
      <<Access("existsSync", versionDir, FALSE), Access("readdirSync", versionDir, FALSE)>>
      \o Concat([i \in 1..Len(scanned) |-> scanned[i].log]))

\* getAllDocs from the existsSync of the version directory on
getAllDocsIn(fs, cfg, env, version, locale, mdxFiles, versionDir) ==
  IF ~PathExists(fs, versionDir)
  THEN Ret(<<>>, <<Access("existsSync", versionDir, FALSE)>>)
  ELSE getAllDocsScanned(cfg, env, versionDir,
         IF locale # <<>> THEN locale
         ELSE IF HasI18n(cfg) THEN cfg.defaultLocale ELSE EN,
         ScanAll(fs, cfg, env, getAllCategoryConfigs(fs, version), version, mdxFiles))

\* the try block of getAllDocs
getAllDocsTry(fs, cfg, env, version, locale, mdxFiles) ==
  getAllDocsIn(fs, cfg, env, version, locale, mdxFiles, join(DOCS_DIR, version))

getAllDocs(fs, cfg, env, version, locale, mdxFiles) ==
  Catch(getAllDocsTry(fs, cfg, env, version, locale, mdxFiles), <<>>)

-----------------------------------------------------------------------------
(* Idle values: what a group of variables holds in a specification that    *)
(* does not exercise it.                                                   *)

V1 == <<"v", "1">>
V2 == <<"v", "2">>

NotCalled == Err("not called")

SanitizeIdle ==
  userPath = <<>> /\ sanitizeResult = NotCalled /\ allowedRoot = <<>> /\ within = None
DocsIdle ==
  /\ fsFiles = <<>> /\ mdxOrder = <<>> /\ i18n = None /\ nodeEnv = "production"
  /\ call = [op |-> "none"] /\ result = [doc |-> None, docs |-> <<>>] /\ fsLog = <<>>
SidebarIdle ==
  /\ allDocs = <<>> /\ currentSlug = <<>> /\ adjacent = None /\ isCategory = None
  /\ sidebar = None
\* keys of the cache maps: a version, and `${version}:${slug}`
CacheVersions == {V1, V2}
Missing == <<"z", "z">>
CacheKey(version, slug) == version \o <<":">> \o slug
\* a version whose name begins with the name of V1
V10 == V1 \o <<"0">>
DocKeys == {CacheKey(V1, <<"a">>), CacheKey(V1, Missing), CacheKey(V10, <<"a">>)}

\* the module-level state of mdx-cache.ts at load time; a map is a function
\* from its possible keys to an entry [data, timestamp] or None
CacheIdle ==
  /\ now = 0
  /\ versionsCache = [data |-> None, timestamp |-> 0]
  /\ allDocsCache = [v \in CacheVersions |-> None]
  /\ docBySlugCache = [k \in DocKeys |-> None]
  /\ watchersInitialized = FALSE /\ watchCalls = 0 /\ watching = FALSE
  /\ pending = {} /\ fsGen = 0 /\ accessCount = 0 /\ lastAccess = None

ProxyIdle == requestPath = <<>> /\ proxyOptions = None /\ response = None
ScanIdle == promises = <<>> /\ settled = <<>>
\* the module-level state of the watch route at load time
SseIdle ==
  streams = <<>> /\ activeWatchers = {} /\ openWatchers = {} /\ lastStatus = 0

-----------------------------------------------------------------------------
(* Content trees, configurations and arguments drawn by the specifications *)
(* of the resolver and of the scanner.                                     *)

PlainData ==
  [title |-> <<>>, slug |-> <<>>, sidebar_position |-> <<>>, order |-> <<>>,
   draft |-> FALSE, tab_group |-> <<>>]

MdxFile(data, content) ==
  [malformed |-> FALSE, unreadable |-> FALSE, data |-> data, content |-> content]

BodyText == <<"h", "i", " ", "y", "o", "u">>
BodyScript == ScriptOpen \o <<">", "x">> \o ScriptClose

Plain == MdxFile(PlainData, BodyText)
WithSlug(x) == MdxFile([PlainData EXCEPT !.slug = x], BodyText)
WithPosition(n) == MdxFile([PlainData EXCEPT !.sidebar_position = <<n>>], BodyText)
WithOrder(n) == MdxFile([PlainData EXCEPT !.order = <<n>>], BodyText)
Draft == MdxFile([PlainData EXCEPT !.draft = TRUE], BodyText)
Dangerous == MdxFile(PlainData, BodyScript)
\* a body of which the sanitizer leaves something
DangerousMixed == MdxFile(PlainData, BodyText \o BodyScript)
Malformed == [malformed |-> TRUE, unreadable |-> FALSE, data |-> PlainData, content |-> <<>>]
\* a file that exists and that readFileSync fails on
Unreadable == [malformed |-> FALSE, unreadable |-> TRUE, data |-> PlainData, content |-> <<>>]
Category ==
  [malformed |-> FALSE, unreadable |-> FALSE, content |-> <<>>,
   data |-> [label |-> <<"G">>, position |-> <<1>>, sidebar_position |-> <<>>,
             collapsible |-> <<TRUE>>, collapsed |-> <<FALSE>>, icon |-> <<>>,
             tab_group |-> <<"x">>]]

V1Dir == DOCS_DIR \o <<"/">> \o V1 \o <<"/">>

F_a == V1Dir \o <<"a">> \o MdxExt
F_a_fr == V1Dir \o <<"a", ".">> \o FR \o MdxExt
F_a_en == V1Dir \o <<"a", ".">> \o EN \o MdxExt
F_b == V1Dir \o <<"b">> \o MdxExt
F_gc == V1Dir \o <<"g", "/", "c">> \o MdxExt
F_gc_fr == V1Dir \o <<"g", "/", "c", ".">> \o FR \o MdxExt
F_category == V1Dir \o <<"g", "/">> \o CategoryFile

\* the trees over a universe (path -> variants of the file) with at most
\* max files: each file is absent or has one of its variants
RECURSIVE TreesOver(_, _)
TreesOver(variants, paths) ==
  IF paths = {} THEN { <<>> }
  ELSE LET p == CHOOSE q \in paths : TRUE
           rest == TreesOver(variants, paths \ {p})
       IN rest \cup { t @@ (p :> v) : t \in rest, v \in variants[p] }

\* the trees with at most max files, each file in one of its variants
Trees(variants, max) ==
  { t \in TreesOver(variants, DOMAIN variants) : Cardinality(DOMAIN t) <= max }

I18nConfigs ==
  { None,
    [defaultLocale |-> EN, locales |-> <<EN, FR>>, prefixDefault |-> FALSE],
    [defaultLocale |-> EN, locales |-> <<EN, FR>>, prefixDefault |-> TRUE] }

NodeEnvs == {"production", "development"}

LocaleArgs == { <<>>, EN, FR }

NoCall == [op |-> "none"]
NoResult == [doc |-> None, docs |-> <<>>]

-----------------------------------------------------------------------------
(* Specification of the resolver: getDocBySlug is called once on a drawn   *)
(* content tree.                                                           *)

ResolveVariants ==
  [ p \in {F_a, F_a_fr, F_a_en, F_gc, F_gc_fr} |->
      CASE p = F_a -> {Plain, WithSlug(<<"x">>)}
        [] p = F_a_fr -> {Plain, WithSlug(<<"x">>)}
        [] p = F_a_en -> {Plain}
        [] p = F_gc -> {Plain, WithSlug(<<"/", "d">>), Dangerous, DangerousMixed, Malformed}
        [] OTHER -> {Plain} ]

\* NODE_ENV as the resolver sees it: production, or one of the others
ResolveEnvs == NodeEnvs \cup {"test"}

Traversal == <<".", ".", "/">>

ResolveArgs ==
  { [slug |-> sl, version |-> V1, locale |-> l] :
      sl \in { <<"a">>, FR \o <<"/", "a">>, EN \o <<"/", "a">>, <<"g", "/", "c">>,
               FR \o <<"/", "g", "/", "c">>, Traversal \o <<"a">> },
      l \in LocaleArgs }
  \cup { [slug |-> <<"a">>, version |-> Traversal \o V1, locale |-> <<>>],
         [slug |-> <<"a">>, version |-> V2, locale |-> <<>>] }

InitResolve ==
  /\ fsFiles \in Trees(ResolveVariants, Cardinality(DOMAIN ResolveVariants))
  /\ i18n \in I18nConfigs
  /\ nodeEnv \in ResolveEnvs
  /\ mdxOrder = <<>>
  /\ call = NoCall
  /\ result = NoResult
  /\ fsLog = <<>>
  /\ SanitizeIdle /\ ScanIdle /\ ProxyIdle /\ SseIdle /\ SidebarIdle /\ CacheIdle

\* the call returns r: its value and its filesystem accesses are recorded
ReturnDoc(r) ==
  /\ result' = IF IsThrown(r) THEN [doc |-> None, docs |-> <<>>, thrown |-> r.thrown]
                ELSE [doc |-> r.val, docs |-> <<>>]
  /\ fsLog' = r.log

CallGetDocBySlug ==
  /\ call = NoCall
  /\ \E args \in ResolveArgs :
       /\ call' = [op |-> "getDocBySlug", slug |-> args.slug, version |-> args.version,
                   locale |-> args.locale]
       /\ ReturnDoc(getDocBySlug(fsFiles, i18n, nodeEnv, args.slug, args.version, args.locale))
  /\ UNCHANGED <<fsFiles, mdxOrder, i18n, nodeEnv, sanitizeVars, scanVars, proxyVars, sseVars, sidebarVars, cacheVars>>

NextResolve == CallGetDocBySlug

SpecResolve == InitResolve /\ [][NextResolve]_vars

\* what the claims call the working slug: the slug without a leading
\* configured locale segment ("index" when nothing is left)
WorkingSlug(cfg, slug) ==
  LET parts == Split(slug, "/")
  IN IF HasI18n(cfg) /\ IsLocale(cfg, parts[1])
     THEN (IF Len(parts) = 1 THEN IndexName ELSE Join(Tail(parts), "/"))
     ELSE slug

Resolved == call.op = "getDocBySlug" /\ result.doc # None

\* C3: with locales configured, an explicit locale argument L other than the
\* default makes getDocBySlug return null whenever <slug>.<L>.mdx is absent.
C3_NoFallbackForExplicitLocale ==
  ( /\ call.op = "getDocBySlug"
    /\ HasI18n(i18n)
    /\ sanitizePath(call.slug).ok /\ sanitizePath(call.version).ok
    /\ call.locale # <<>> /\ call.locale # i18n.defaultLocale
    /\ join(join(DOCS_DIR, call.version),
            WorkingSlug(i18n, call.slug) \o <<".">> \o call.locale \o MdxExt)
         \notin DOMAIN fsFiles )
  => result.doc = None

\* C4: the locale of the resolved document is the explicit argument when one
\* is given, else the locale peeled from the slug, else the default locale.
C4_ExplicitLocaleWins ==
  (Resolved /\ HasI18n(i18n)) =>
    LET parts == Split(call.slug, "/")
        expected == IF call.locale # <<>> THEN call.locale
                    ELSE IF IsLocale(i18n, parts[1]) THEN parts[1]
                    ELSE i18n.defaultLocale
    IN result.doc.meta.locale = expected

\* C5: a resolved document's slug starts with "<locale>/" exactly when its
\* locale is not the default locale or prefixDefault is set.
C5_PrefixRule ==
  (Resolved /\ HasI18n(i18n)) =>
    ( StartsWith(result.doc.slug, result.doc.meta.locale \o <<"/">>)
      <=> (result.doc.meta.locale # i18n.defaultLocale \/ i18n.prefixDefault) )

\* C6: a resolved document whose front matter declares a slug has the logical
\* path as filePath and, as slug, that path with its last segment replaced by
\* the declared slug (a locale prefix apart).
C6_CustomSlugKeepsFolder ==
  (Resolved /\ result.doc.meta.slug # <<>>) =>
    LET declared == result.doc.meta.slug
        custom == IF declared[1] = "/" THEN Tail(declared) ELSE declared
        folders == Folders(result.doc.filePath)
    IN /\ result.doc.filePath = WorkingSlug(i18n, call.slug)
       /\ LogicalSlug(i18n, result.doc.slug) = Join(Append(folders, custom), "/")

\* the file a getDocBySlug call read last (none: the empty path); a returned
\* document was built from it
C15_LastRead ==
  LET reads == { i \in 1..Len(fsLog) : fsLog[i].op = "readFileSync" }
  IN IF reads = {} THEN <<>>
     ELSE fsLog[CHOOSE i \in reads : \A k \in reads : k <= i].path

\* the content tree with every body replaced by harmless text
C15_Harmless ==
  [ f \in DOMAIN fsFiles |->
      IF fsFiles[f].malformed THEN fsFiles[f] ELSE [fsFiles[f] EXCEPT !.content = BodyText] ]

\* C15: in production a file whose body matches a disallowed pattern yields
\* no document; in every other mode the body's matches change nothing about
\* whether a document is returned, and the content of the returned document
\* (content and meta.content) is the sanitizer's output for the body of the
\* file, whatever that output is.
C15_StrictRejectsRelaxedServesSanitized ==
  (call.op = "getDocBySlug" /\ C15_LastRead # <<>> /\ ~fsFiles[C15_LastRead].malformed) =>
    LET body == fsFiles[C15_LastRead].content IN
    IF nodeEnv = "production"
    THEN scanMDXForDangerousPatterns(body) # <<>> => result.doc = None
    ELSE /\ result.doc = None
            <=> getDocBySlug(C15_Harmless, i18n, nodeEnv,
                             call.slug, call.version, call.locale).val = None
         /\ result.doc # None =>
              /\ result.doc.content = sanitizeMDXContent(body)
              /\ result.doc.meta.content = sanitizeMDXContent(body)

-----------------------------------------------------------------------------
(* Specification of the scanner: getAllDocs is called once on a drawn      *)
(* content tree of at most MaxFiles files, enumerated in any order that    *)
(* readdirSync can produce.                                                *)

MaxFiles == 3

ScanVariants ==
  [ p \in {F_a, F_a_fr, F_b, F_gc, F_category} |->
      CASE p = F_a -> {Plain, WithSlug(<<"b">>), WithPosition(2)}
        [] p = F_a_fr -> {Plain, WithSlug(<<"x">>), WithPosition(1)}
        [] p = F_b -> {Plain, WithPosition(1)}
        [] p = F_gc -> {Plain, Draft}
        [] OTHER -> {Category} ]

\* an explicit default locale is the same call as none: locale || defaultLocale
ScanLocales == { <<>>, FR }

ScanVersions == { V1, V2, Traversal \o <<"d", "o", "c", "s", "/">> \o V1 }

InitScan ==
  /\ fsFiles \in Trees(ScanVariants, MaxFiles)
  /\ i18n \in I18nConfigs
  /\ nodeEnv \in NodeEnvs
  /\ mdxOrder = <<>>
  /\ call = NoCall
  /\ result = NoResult
  /\ fsLog = <<>>
  /\ SanitizeIdle /\ ScanIdle /\ ProxyIdle /\ SseIdle /\ SidebarIdle /\ CacheIdle

\* the call returns r: its value and its filesystem accesses are recorded
ReturnDocs(r) ==
  /\ result' = IF IsThrown(r) THEN [doc |-> None, docs |-> <<>>, thrown |-> r.thrown]
                ELSE [doc |-> None, docs |-> r.val]
  /\ fsLog' = r.log

CallGetAllDocs ==
  /\ call = NoCall
  /\ \E version \in ScanVersions, locale \in ScanLocales :
       \E files \in Enumerations(MdxFilesUnder(fsFiles, join(DOCS_DIR, version))) :
         /\ call' = [op |-> "getAllDocs", slug |-> <<>>, version |-> version,
                     locale |-> locale]
         /\ ReturnDocs(getAllDocs(fsFiles, i18n, nodeEnv, version, locale, files))
         /\ mdxOrder' = files
  /\ UNCHANGED <<fsFiles, i18n, nodeEnv, sanitizeVars, scanVars, proxyVars, sseVars, sidebarVars, cacheVars>>

NextScan == CallGetAllDocs

SpecScan == InitScan /\ [][NextScan]_vars

\* C1: no filesystem access of a call is made before the caller's version
\* and slug have passed sanitizePath, and a call whose version or slug fails
\* sanitizePath makes no filesystem access at all.
C1_SanitizedBeforeFilesystem ==
  call.op # "none" =>
    /\ \A i \in 1..Len(fsLog) : fsLog[i].sanitized
    /\ ( \/ ~sanitizePath(call.version).ok
         \/ (call.op = "getDocBySlug" /\ ~sanitizePath(call.slug).ok) )
       => fsLog = <<>>

Scanned == call.op = "getAllDocs"

ScanTarget == IF call.locale # <<>> THEN call.locale
              ELSE IF HasI18n(i18n) THEN i18n.defaultLocale ELSE EN

\* the documents the deduplication starts from, in discovery order
ScanCandidates ==
  LET scanned == ScanAll(fsFiles, i18n, nodeEnv, getAllCategoryConfigs(fsFiles, call.version),
                         call.version, mdxOrder)
      Valid(r) == r.val # None /\ (nodeEnv = "development" \/ ~r.val.meta.draft)
      kept == SelectSeq(scanned, Valid)
  IN [i \in 1..Len(kept) |-> kept[i].val]

DocsWithKey(docs, key) == { i \in 1..Len(docs) : LogicalSlug(i18n, docs[i].slug) = key }

Sorted(docs) == \A i, j \in 1..Len(docs) : i < j => OrderHint(docs[i]) <= OrderHint(docs[j])

\* position in the enumeration of the file a returned document came from
DiscoveryIndex(doc) ==
  LET cc == getAllCategoryConfigs(fsFiles, call.version) IN
  CHOOSE i \in 1..Len(mdxOrder) :
    /\ ScanFile(fsFiles, i18n, nodeEnv, cc, call.version, mdxOrder[i]).val = doc
    /\ \A k \in 1..(i - 1) :
         ScanFile(fsFiles, i18n, nodeEnv, cc, call.version, mdxOrder[k]).val # doc

\* C8 as stated: sorted by hint, ties in discovery order
C8_SortedTiesInDiscoveryOrder ==
  Scanned =>
    /\ Sorted(result.docs)
    /\ \A i, j \in 1..Len(result.docs) :
         (i < j /\ OrderHint(result.docs[i]) = OrderHint(result.docs[j]))
           => DiscoveryIndex(result.docs[i]) < DiscoveryIndex(result.docs[j])

\* position in the enumeration at which a logical slug was first stored in
\* the deduplication map: its first candidate in the target or default locale
FirstStored(key) ==
  LET cands == ScanCandidates
      Storable(i) == /\ LogicalSlug(i18n, cands[i].slug) = key
                     /\ \/ cands[i].meta.locale = ScanTarget
                        \/ (HasI18n(i18n) /\ cands[i].meta.locale = i18n.defaultLocale)
  IN CHOOSE i \in 1..Len(cands) : Storable(i) /\ \A k \in 1..(i - 1) : ~Storable(k)

\* C8 amended: sorted by hint, ties in the order in which their logical
\* slugs were first stored (a replacing target-locale document keeps the
\* place of the document it replaced)
C8_SortedTiesInFirstStoredOrder ==
  Scanned =>
    /\ Sorted(result.docs)
    /\ \A i, j \in 1..Len(result.docs) :
         (i < j /\ OrderHint(result.docs[i]) = OrderHint(result.docs[j]))
           => FirstStored(LogicalSlug(i18n, result.docs[i].slug))
                < FirstStored(LogicalSlug(i18n, result.docs[j].slug))

\* witness of C8: three documents with hints 2, none, 1 come back as 1, 2, 999
C8_Witness ==
  /\ Scanned /\ Len(result.docs) = 3
  /\ OrderHint(ScanCandidates[1]) = 2
  /\ OrderHint(ScanCandidates[2]) = Unordered
  /\ OrderHint(ScanCandidates[3]) = 1
  /\ OrderHint(result.docs[1]) = 1 /\ OrderHint(result.docs[2]) = 2
  /\ OrderHint(result.docs[3]) = Unordered

\* the outcome of the recorded call had it been made without locale argument
C22_WithoutLocale ==
  IF call.op = "getAllDocs"
  THEN getAllDocs(fsFiles, i18n, nodeEnv, call.version, <<>>, mdxOrder)
  ELSE getDocBySlug(fsFiles, i18n, nodeEnv, call.slug, call.version, <<>>)

\* C22: without locale configuration a call returns what the same call
\* without locale argument returns (so no slug is prefixed with a locale) and
\* makes the same filesystem accesses (so no locale-suffixed file is looked
\* up), whatever locale argument it is given.
C22_LocaleArgumentIgnoredWithoutConfig ==
  (call.op # "none" /\ ~HasI18n(i18n)) =>
    /\ "thrown" \notin DOMAIN result
    /\ (call.op = "getAllDocs" => result.docs = C22_WithoutLocale.val)
    /\ (call.op = "getDocBySlug" => result.doc = C22_WithoutLocale.val)
    /\ fsLog = C22_WithoutLocale.log

\* C30: the returned list holds at most one document per logical file path.
C30_OnePerFilePath ==
  Scanned =>
    \A i, j \in 1..Len(result.docs) :
      result.docs[i].filePath = result.docs[j].filePath => i = j

-----------------------------------------------------------------------------
(* Specification of the scan in flight: getAllDocs hands one promise per   *)
(* enumerated file to Promise.all; the promises settle in any order, and   *)
(* the function goes on after the await when all have settled.             *)

Pending == [pending |-> TRUE]

FanOutVariants ==
  [ p \in {F_a, F_a_fr, F_b, F_gc} |->
      CASE p = F_a -> {Plain, WithSlug(<<"b">>)}
        [] p = F_b -> {Plain, WithPosition(1)}
        [] OTHER -> {Plain} ]

InitFanOut ==
  /\ fsFiles \in Trees(FanOutVariants, MaxFiles)
  /\ i18n \in I18nConfigs
  /\ nodeEnv = "production"
  /\ mdxOrder = <<>>
  /\ call = NoCall
  /\ result = NoResult
  /\ fsLog = <<>>
  /\ ScanIdle
  /\ SanitizeIdle /\ SidebarIdle /\ CacheIdle /\ ProxyIdle /\ SseIdle

\* getAllDocs up to `await Promise.all(...)`: the files are enumerated and
\* one callback per file is started
StartGetAllDocs ==
  /\ call = NoCall
  /\ \E locale \in ScanLocales :
       \E files \in Enumerations(MdxFilesUnder(fsFiles, join(DOCS_DIR, V1))) :
         /\ call' = [op |-> "await", slug |-> <<>>, version |-> V1, locale |-> locale]
         /\ mdxOrder' = files
         /\ promises' = [i \in 1..Len(files) |-> Pending]
  /\ UNCHANGED <<fsFiles, i18n, nodeEnv, result, fsLog, settled,
                 sanitizeVars, sidebarVars, cacheVars, proxyVars, sseVars>>

\* the callback of file i returns: its promise is fulfilled with the
\* document or null
SettleFile(i) ==
  /\ call.op = "await"
  /\ i \in 1..Len(promises) /\ promises[i] = Pending
  /\ promises' = [promises EXCEPT ![i] =
                    ScanFile(fsFiles, i18n, nodeEnv, getAllCategoryConfigs(fsFiles, call.version),
                             call.version, mdxOrder[i])]
  /\ settled' = Append(settled, i)
  /\ UNCHANGED <<fsFiles, mdxOrder, i18n, nodeEnv, call, result, fsLog,
                 sanitizeVars, sidebarVars, cacheVars, proxyVars, sseVars>>

\* the target locale of the call
FanOutTarget ==
  IF call.locale # <<>> THEN call.locale
  ELSE IF HasI18n(i18n) THEN i18n.defaultLocale ELSE EN

\* variant of MergeResults that takes the results in the order in which the
\* promises settled
MergeResultsInSettleOrder ==
  /\ call.op = "await"
  /\ \A i \in 1..Len(promises) : promises[i] # Pending
  /\ call' = [call EXCEPT !.op = "getAllDocs"]
  /\ ReturnDocs(getAllDocsScanned(i18n, nodeEnv, join(DOCS_DIR, call.version), FanOutTarget,
                                  [k \in 1..Len(settled) |-> promises[settled[k]]]))
  /\ UNCHANGED <<fsFiles, mdxOrder, i18n, nodeEnv, promises, settled,
                 sanitizeVars, sidebarVars, cacheVars, proxyVars, sseVars>>

\* getAllDocs after the await: Promise.all is fulfilled with the array of
\* the results by file index; filter, merge and sort
MergeResults ==
  /\ call.op = "await"
  /\ \A i \in 1..Len(promises) : promises[i] # Pending
  /\ call' = [call EXCEPT !.op = "getAllDocs"]
  /\ ReturnDocs(getAllDocsScanned(i18n, nodeEnv, join(DOCS_DIR, call.version), FanOutTarget,
                                  promises))
  /\ UNCHANGED <<fsFiles, mdxOrder, i18n, nodeEnv, promises, settled,
                 sanitizeVars, sidebarVars, cacheVars, proxyVars, sseVars>>

NextFanOut ==
  \/ StartGetAllDocs
  \/ \E i \in 1..MaxFiles : SettleFile(i)
  \/ MergeResults

SpecFanOut == InitFanOut /\ [][NextFanOut]_vars

\* the documents of the merge taken over the results in enumeration order
C26_InEnumerationOrder ==
  SortDocs(MapValues(MergeAll(i18n, FanOutTarget, <<>>,
    Concat([i \in 1..Len(promises) |-> ValidDocs(nodeEnv, promises, i)]))))

\* C26: nothing is returned while a per-file resolution is outstanding, and
\* the list returned is the merge of the results taken one by one in the
\* order of the enumeration, whatever the order in which the resolutions
\* completed.
C26_MergeAfterAllInEnumerationOrder ==
  /\ [](call.op = "getAllDocs" =>
          /\ Len(settled) = Len(mdxOrder)
          /\ \A i \in 1..Len(promises) : promises[i] # Pending
          /\ result.docs = C26_InEnumerationOrder)
  /\ [][result' # result => \A i \in 1..Len(promises) : promises[i] # Pending]_vars

\* witness of C26: two documents were returned by a call whose second file
\* was resolved before its first
C26_Witness ==
  /\ call.op = "getAllDocs"
  /\ Len(result.docs) = 2
  /\ Len(settled) = 2 /\ settled[1] = 2 /\ settled[2] = 1

-----------------------------------------------------------------------------
(* Specification of the entry points on faulty content: the drawn tree may *)
(* hold files that cannot be read, parsed or validated, then getDocBySlug  *)
(* or getAllDocs is called once.                                           *)

FaultVariants ==
  [ p \in {F_a, F_a_fr, F_a_en, F_gc, F_category} |->
      CASE p = F_a -> {Plain, Malformed, Unreadable, Dangerous}
        [] p = F_a_fr -> {Plain, Malformed}
        [] p = F_a_en -> {Plain, Unreadable}
        [] p = F_gc -> {Plain, WithPosition(1), Malformed}
        [] OTHER -> {Category} ]

\* a version, a version without directory, and a path that names a file
FaultVersions == { V1, V2, V1 \o <<"/", "a">> \o MdxExt }

InitFaults ==
  /\ fsFiles \in Trees(FaultVariants, MaxFiles)
  /\ i18n \in I18nConfigs
  /\ nodeEnv \in NodeEnvs
  /\ mdxOrder = <<>>
  /\ call = NoCall
  /\ result = NoResult
  /\ fsLog = <<>>
  /\ SanitizeIdle /\ ScanIdle /\ ProxyIdle /\ SseIdle /\ SidebarIdle /\ CacheIdle

CallGetAllDocsFaulty ==
  /\ call = NoCall
  /\ \E version \in FaultVersions, locale \in ScanLocales :
       \E files \in Enumerations(MdxFilesUnder(fsFiles, join(DOCS_DIR, version))) :
         /\ call' = [op |-> "getAllDocs", slug |-> <<>>, version |-> version,
                     locale |-> locale]
         /\ ReturnDocs(getAllDocs(fsFiles, i18n, nodeEnv, version, locale, files))
         /\ mdxOrder' = files
  /\ UNCHANGED <<fsFiles, i18n, nodeEnv, sanitizeVars, scanVars, proxyVars, sseVars, sidebarVars, cacheVars>>

NextFaults == CallGetDocBySlug \/ CallGetAllDocsFaulty

SpecFaults == InitFaults /\ [][NextFaults]_vars

\* the file cannot be read, parsed or, in production, validated
Faulty(file, env) ==
  \/ file.unreadable
  \/ file.malformed
  \/ (env = "production" /\ scanMDXForDangerousPatterns(file.content) # <<>>)

\* C16: no call of getDocBySlug or getAllDocs ends in an exception; a
\* getDocBySlug whose version or slug is rejected by sanitizePath returns
\* null, a returned document was never built from a file that cannot be
\* read, parsed or validated, and getAllDocs returns the empty list when the
\* version directory does not exist.
C16_NeverThrows ==
  call.op # "none" =>
    /\ ~IsThrown(result)
    /\ call.op = "getDocBySlug" =>
         /\ (~sanitizePath(call.version).ok \/ ~sanitizePath(call.slug).ok)
              => result.doc = None
         /\ result.doc # None =>
              /\ C15_LastRead # <<>>
              /\ ~Faulty(fsFiles[C15_LastRead], nodeEnv)
         /\ (C15_LastRead # <<>> /\ Faulty(fsFiles[C15_LastRead], nodeEnv))
              => result.doc = None
    /\ call.op = "getAllDocs" =>
         (~PathExists(fsFiles, join(DOCS_DIR, call.version)) => result.docs = <<>>)

\* witness of C16: a slug that sanitizePath rejects was asked for and the
\* call returned null
C16_Witness ==
  /\ call.op = "getDocBySlug" /\ call.slug = Traversal \o <<"a">>
  /\ ~sanitizePath(call.slug).ok
  /\ result = NoResult /\ fsLog = <<>>

\* a file that cannot be read was the last one read and the call returned null
C16_WitnessUnreadable ==
  /\ call.op = "getDocBySlug" /\ C15_LastRead = F_a /\ fsFiles[F_a].unreadable
  /\ result = NoResult

\* getAllDocs on a version without directory returned the empty list
C16_WitnessNoDirectory ==
  /\ call.op = "getAllDocs" /\ call.version = V2 /\ DOMAIN fsFiles # {}
  /\ result = NoResult
  /\ fsLog = <<Access("existsSync", join(DOCS_DIR, V2), FALSE)>>

\* the documents of the scanned version that cannot be read, parsed or
\* validated
C17_FaultyDocs ==
  { f \in DOMAIN fsFiles : /\ IsUnder(join(DOCS_DIR, call.version), f)
                            /\ EndsWith(f, MdxExt)
                            /\ Faulty(fsFiles[f], nodeEnv) }

\* the content tree without the file f, and the enumeration without it
C17_Without(f) == [ g \in DOMAIN fsFiles \ {f} |-> fsFiles[g] ]

C17_OrderWithout(f) ==
  LET Other(x) == join(join(DOCS_DIR, call.version), x) # f
  IN SelectSeq(mdxOrder, Other)

\* the same documents, each as many times
C17_SameDocs(a, b) ==
  /\ Len(a) = Len(b)
  /\ \A i \in 1..Len(a) :
       Cardinality({k \in 1..Len(a) : a[k] = a[i]}) = Cardinality({k \in 1..Len(b) : b[k] = a[i]})

-----------------------------------------------------------------------------
(* Specification of the category overlay: getAllDocs is called once on a   *)
(* tree with documents at the version root, in a folder and in a folder of *)
(* that folder, where either folder may have a category descriptor.        *)

F_ghd == V1Dir \o <<"g", "/", "h", "/", "d">> \o MdxExt
F_h_category == V1Dir \o <<"g", "/", "h", "/">> \o CategoryFile

CategoryH ==
  [malformed |-> FALSE, unreadable |-> FALSE, content |-> <<>>,
   data |-> [label |-> <<"H">>, position |-> <<>>, sidebar_position |-> <<2>>,
             collapsible |-> <<>>, collapsed |-> <<TRUE>>, icon |-> <<"i">>,
             tab_group |-> <<>>]]

CategoryVariants ==
  [ p \in {F_a, F_gc, F_ghd, F_category, F_h_category} |->
      CASE p = F_category -> {Category}
        [] p = F_h_category -> {CategoryH}
        [] p = F_gc -> {Plain, WithPosition(1)}
        [] OTHER -> {Plain} ]

InitCategory ==
  /\ fsFiles \in Trees(CategoryVariants, MaxFiles + 1)
  /\ i18n \in I18nConfigs
  /\ nodeEnv \in NodeEnvs
  /\ mdxOrder = <<>>
  /\ call = NoCall
  /\ result = NoResult
  /\ fsLog = <<>>
  /\ SanitizeIdle /\ ScanIdle /\ ProxyIdle /\ SseIdle /\ SidebarIdle /\ CacheIdle

NextCategory == CallGetAllDocs

SpecCategory == InitCategory /\ [][NextCategory]_vars

\* the descriptor file of a folder of the scanned version
C19_Descriptor(folder) ==
  join(join(DOCS_DIR, call.version), folder \o <<"/">> \o CategoryFile)

\* the folders above a document that have a descriptor
C19_DescribedAncestors(doc) ==
  { folder \in { Join(SubSeq(Split(doc.filePath, "/"), 1, k), "/") :
                   k \in 1..(Len(Split(doc.filePath, "/")) - 1) } :
      C19_Descriptor(folder) \in DOMAIN fsFiles }

C19_Nearest(doc) ==
  CHOOSE folder \in C19_DescribedAncestors(doc) :
    \A other \in C19_DescribedAncestors(doc) : Len(other) <= Len(folder)

C19_Annotations(doc) ==
  [label |-> doc.categoryLabel, position |-> doc.categoryPosition,
   collapsible |-> doc.categoryCollapsible, collapsed |-> doc.categoryCollapsed,
   icon |-> doc.categoryIcon, tab_group |-> doc.categoryTabGroup]

\* the annotations a descriptor c gives; none: the annotations of no descriptor
C19_Of(c) ==
  [label |-> c.label, position |-> Coalesce(c.position, c.sidebar_position),
   collapsible |-> c.collapsible, collapsed |-> c.collapsed,
   icon |-> c.icon, tab_group |-> c.tab_group]

C19_NoAnnotations ==
  [label |-> <<>>, position |-> <<>>, collapsible |-> <<>>, collapsed |-> <<>>,
   icon |-> <<>>, tab_group |-> <<>>]

\* C19: every document getAllDocs returns carries the annotations of the
\* nearest folder above it that has a category descriptor (its parent folder
\* if that has one, else the closest ancestor that has), and none when no
\* folder above it has one, as for a document at the version root.
C19_NearestAncestorAnnotations ==
  Scanned =>
    \A i \in 1..Len(result.docs) :
      C19_Annotations(result.docs[i]) =
        IF C19_DescribedAncestors(result.docs[i]) = {} THEN C19_NoAnnotations
        ELSE C19_Of(fsFiles[C19_Descriptor(C19_Nearest(result.docs[i]))].data)

-----------------------------------------------------------------------------
(* Sidebar tree, flattened order and adjacent documents.                   *)
(* The tree is an arena: the groups in creation order, each with the keys  *)
(* leading to it from the root; the children of a group are the groups one *)
(* key below it, in creation order (the key order of the JavaScript        *)
(* object that holds them).                                                *)

LowerCase == <<"a","b","c","d","e","f","g","h","i","j","k","l","m",
               "n","o","p","q","r","s","t","u","v","w","x","y","z">>
UpperCase == <<"A","B","C","D","E","F","G","H","I","J","K","L","M",
               "N","O","P","Q","R","S","T","U","V","W","X","Y","Z">>

toUpperCase(c) ==
  IF \E i \in 1..26 : LowerCase[i] = c
  THEN UpperCase[CHOOSE i \in 1..26 : LowerCase[i] = c]
  ELSE c

\* w.charAt(0).toUpperCase() + w.slice(1)
Capitalize(w) == IF Len(w) = 0 THEN w ELSE <<toUpperCase(w[1])>> \o Tail(w)

\* folder.split("-").map(capitalize).join(" ")
FolderLabel(folder) ==
  LET ws == Split(folder, "-")
  IN Join([i \in 1..Len(ws) |-> Capitalize(ws[i])], " ")

\* a property of a document object that the object may not have
Field(doc, f) == IF f \in DOMAIN doc THEN doc[f] ELSE <<>>

isIndexFile(doc) ==
  LET pathParts == Split(doc.filePath, "/")
  IN \/ EndsWith(doc.filePath, <<"/">> \o IndexName)
     \/ doc.filePath = IndexName
     \/ (Len(pathParts) > 1 /\ doc.slug = Join(SubSeq(pathParts, 1, Len(pathParts) - 1), "/"))

GroupIndex(groups, key) ==
  IF \E i \in 1..Len(groups) : groups[i].key = key
  THEN CHOOSE i \in 1..Len(groups) : groups[i].key = key
  ELSE 0

EmptyTree == [groups |-> <<>>, standalone |-> <<>>]

\* the branch of a document with a sidebar/group override
PlaceInCustomGroup(groups, doc, customGroup) ==
  LET groupName == Capitalize(customGroup)
      key == <<groupName>>
      made == IF GroupIndex(groups, key) # 0 THEN groups
              ELSE Append(groups,
                     [ key |-> key, label |-> groupName, path |-> customGroup,
                       icon |-> <<>>, items |-> <<>>, position |-> Unordered,
                       collapsible |-> Coalesce(doc.categoryCollapsible, <<TRUE>>)[1],
                       defaultCollapsed |-> Coalesce(doc.categoryCollapsed, <<FALSE>>)[1] ])
      i == GroupIndex(made, key)
  IN IF isIndexFile(doc)
     THEN [made EXCEPT ![i].position = Coalesce(Field(doc, "sidebar_position"), <<Unordered>>)[1],
                       ![i].icon = doc.categoryIcon]
     ELSE [made EXCEPT ![i].items = Append(@, doc)]

\* the loop over folderParts, from its i-th round on
RECURSIVE PlaceInFolders(_, _, _, _)
PlaceInFolders(groups, doc, folderParts, i) ==
  IF i > Len(folderParts) THEN groups
  ELSE
    LET folder == folderParts[i]
        key == SubSeq(folderParts, 1, i)
        last == i = Len(folderParts)
        made == IF GroupIndex(groups, key) # 0 THEN groups
                ELSE Append(groups,
                       [ key |-> key,
                         label |-> IF doc.categoryLabel # <<>> /\ last
                                   THEN doc.categoryLabel ELSE FolderLabel(folder),
                         path |-> Join(key, "/"),
                         icon |-> doc.categoryIcon,
                         items |-> <<>>,
                         position |-> Coalesce(doc.categoryPosition, <<Unordered>>)[1],
                         collapsible |-> Coalesce(doc.categoryCollapsible, <<TRUE>>)[1],
                         defaultCollapsed |-> Coalesce(doc.categoryCollapsed, <<FALSE>>)[1] ])
        g == GroupIndex(made, key)
        placed ==
          IF ~last THEN made
          ELSE IF isIndexFile(doc)
          THEN [made EXCEPT
                 ![g].position = Coalesce(Coalesce(doc.categoryPosition,
                                                   Field(doc, "sidebar_position")),
                                          <<Unordered>>)[1],
                 ![g].label = IF doc.categoryLabel # <<>> THEN doc.categoryLabel ELSE @,
                 ![g].icon = IF doc.categoryIcon # <<>> THEN doc.categoryIcon ELSE @]
          ELSE [made EXCEPT ![g].items = Append(@, doc)]
    IN PlaceInFolders(placed, doc, folderParts, i + 1)

\* variant of PlaceDoc that lists an index document at the root like any
\* other document
PlaceDocIndexStandalone(tree, doc) ==
  LET pathParts == Split(doc.filePath, "/")
      customGroup == Coalesce(Field(doc, "sidebar"), Field(doc, "group"))
  IN IF customGroup # <<>>
     THEN [tree EXCEPT !.groups = PlaceInCustomGroup(@, doc, customGroup)]
     ELSE IF Len(pathParts) > 1
     THEN [tree EXCEPT !.groups =
             PlaceInFolders(@, doc, SubSeq(pathParts, 1, Len(pathParts) - 1), 1)]
     ELSE [tree EXCEPT !.standalone = Append(@, doc)]

\* one round of docs.forEach in the tree construction
PlaceDoc(tree, doc) ==
  LET pathParts == Split(doc.filePath, "/")
      customGroup == Coalesce(Field(doc, "sidebar"), Field(doc, "group"))
  IN IF customGroup # <<>>
     THEN [tree EXCEPT !.groups = PlaceInCustomGroup(@, doc, customGroup)]
     ELSE IF Len(pathParts) > 1
     THEN [tree EXCEPT !.groups =
             PlaceInFolders(@, doc, SubSeq(pathParts, 1, Len(pathParts) - 1), 1)]
     ELSE IF ~isIndexFile(doc)
     THEN [tree EXCEPT !.standalone = Append(@, doc)]
     ELSE tree

RECURSIVE PlaceAll(_, _)
PlaceAll(tree, docs) ==
  IF Len(docs) = 0 THEN tree ELSE PlaceAll(PlaceDoc(tree, Head(docs)), Tail(docs))

buildSidebarStructure(docs) == PlaceAll(EmptyTree, docs)

\* the groups directly below a key, in creation order
ChildGroups(groups, key) ==
  SelectSeq(groups, LAMBDA g : Len(g.key) = Len(key) + 1 /\ SubSeq(g.key, 1, Len(key)) = key)

\* stable ascending sort of documents by sidebar_position ?? order ?? 999
sortSidebarItems(items) == SortDocs(items)

\* stable ascending sort of groups by position
sortSidebarGroups(groups) ==
  LET keyed == [i \in 1..Len(groups) |-> [key |-> groups[i].position, val |-> groups[i]]]
      sorted == SortByKey(keyed)
  IN [i \in 1..Len(sorted) |-> sorted[i].val]

RECURSIVE flattenGroup(_, _)
RECURSIVE FlattenMerged(_, _)
\* merged.forEach: a group entry is flattened in place, an item is pushed
FlattenMerged(groups, merged) ==
  IF Len(merged) = 0 THEN <<>>
  ELSE LET item == Head(merged).val
       IN (IF item.type = "group" THEN flattenGroup(groups, item.group)
           ELSE <<item.doc>>) \o FlattenMerged(groups, Tail(merged))

\* variant of flattenGroup that emits the child groups, then the items,
\* without sorting the merged list
flattenGroupUnmerged(groups, group) ==
  LET sortedChildren == sortSidebarGroups(ChildGroups(groups, group.key))
      sortedItems == sortSidebarItems(group.items)
      merged ==
        [i \in 1..Len(sortedChildren) |->
           [key |-> sortedChildren[i].position,
            val |-> [type |-> "group", group |-> sortedChildren[i], doc |-> None]]]
        \o
        [i \in 1..Len(sortedItems) |->
           [key |-> OrderHint(sortedItems[i]),
            val |-> [type |-> "item", group |-> None, doc |-> sortedItems[i]]]]
  IN FlattenMerged(groups, merged)

flattenGroup(groups, group) ==
  LET sortedChildren == sortSidebarGroups(ChildGroups(groups, group.key))
      sortedItems == sortSidebarItems(group.items)
      merged ==
        [i \in 1..Len(sortedChildren) |->
           [key |-> sortedChildren[i].position,
            val |-> [type |-> "group", group |-> sortedChildren[i], doc |-> None]]]
        \o
        [i \in 1..Len(sortedItems) |->
           [key |-> OrderHint(sortedItems[i]),
            val |-> [type |-> "item", group |-> None, doc |-> sortedItems[i]]]]
  IN FlattenMerged(groups, SortByKey(merged))

flattenSidebarOrder(tree) ==
  LET sortedRootGroups == sortSidebarGroups(ChildGroups(tree.groups, <<>>))
      rootEntries == [i \in 1..Len(sortedRootGroups) |->
                        [key |-> 0,
                         val |-> [type |-> "group", group |-> sortedRootGroups[i], doc |-> None]]]
  IN sortSidebarItems(tree.standalone) \o FlattenMerged(tree.groups, rootEntries)

\* orderedDocs.findIndex(doc => doc.slug === slug), 0 for -1
FindIndex(docs, slug) ==
  IF \E i \in 1..Len(docs) : docs[i].slug = slug
  THEN CHOOSE i \in 1..Len(docs) :
         docs[i].slug = slug /\ \A k \in 1..(i - 1) : docs[k].slug # slug
  ELSE 0

\* doc.meta?.tab_group || doc.categoryTabGroup
TabGroupOf(doc) == Coalesce(doc.meta.tab_group, doc.categoryTabGroup)

Neither == [previous |-> None, next |-> None]

\* variant of getAdjacentDocs that takes the neighbours in the whole order
getAdjacentDocsUnfiltered(slug, docs) ==
  LET orderedDocs == flattenSidebarOrder(buildSidebarStructure(docs))
      currentIndex == FindIndex(orderedDocs, slug)
  IN IF currentIndex = 0 THEN Neither
     ELSE [ previous |-> IF currentIndex > 1 THEN orderedDocs[currentIndex - 1] ELSE None,
            next |-> IF currentIndex < Len(orderedDocs)
                     THEN orderedDocs[currentIndex + 1] ELSE None ]

getAdjacentDocs(slug, docs) ==
  LET orderedDocs == flattenSidebarOrder(buildSidebarStructure(docs))
      currentIndex == FindIndex(orderedDocs, slug)
  IN IF currentIndex = 0 THEN Neither
     ELSE
       LET currentTabGroup == TabGroupOf(orderedDocs[currentIndex])
           filteredDocs ==
             SelectSeq(orderedDocs,
               LAMBDA doc : IF currentTabGroup # <<>>
                            THEN TabGroupOf(doc) = currentTabGroup
                            ELSE TabGroupOf(doc) = <<>>)
           filteredIndex == FindIndex(filteredDocs, slug)
       IN IF filteredIndex = 0 THEN Neither
          ELSE [ previous |-> IF filteredIndex > 1
                              THEN filteredDocs[filteredIndex - 1] ELSE None,
                 next |-> IF filteredIndex < Len(filteredDocs)
                          THEN filteredDocs[filteredIndex + 1] ELSE None ]

-----------------------------------------------------------------------------
(* Specification of the adjacent-document lookup: a document list and a    *)
(* slug are drawn, then getAdjacentDocs is called once.                    *)

MaxDocs == 3

TabX == <<"x">>
TabY == <<"y">>

\* a document as getAllDocs returns it, reduced to what the sidebar reads
SidebarDoc(filePath, slug, position, tab, categoryTab) ==
  [ slug |-> slug, filePath |-> filePath, title |-> filePath,
    meta |-> [ slug |-> <<>>, sidebar_position |-> position, order |-> <<>>,
               draft |-> FALSE, tab_group |-> tab, locale |-> EN,
               content |-> <<>>, reading_time |-> 1, word_count |-> 1 ],
    content |-> <<>>,
    categoryLabel |-> <<>>, categoryPosition |-> <<>>, categoryCollapsible |-> <<>>,
    categoryCollapsed |-> <<>>, categoryIcon |-> <<>>, categoryTabGroup |-> categoryTab ]

P_a == <<"a">>
P_b == <<"b">>
P_gc == <<"g", "/", "c">>
P_g == <<"g">>
P_gindex == <<"g", "/", "i", "n", "d", "e", "x">>
P_ghd == <<"g", "/", "h", "/", "d">>
P_unknown == <<"z">>

DocPool ==
  { SidebarDoc(P_a, P_a, <<>>, TabX, <<>>),
    SidebarDoc(P_a, P_a, <<>>, <<>>, <<>>),
    SidebarDoc(P_b, P_b, <<>>, <<>>, <<>>),
    SidebarDoc(P_b, P_b, <<1>>, TabX, <<>>),
    SidebarDoc(P_b, P_a, <<>>, TabY, <<>>),
    SidebarDoc(P_gc, P_gc, <<>>, <<>>, TabX),
    SidebarDoc(P_gc, P_gc, <<>>, TabY, TabX),
    SidebarDoc(P_gc, P_gc, <<>>, <<>>, <<>>),
    SidebarDoc(P_gindex, P_g, <<>>, <<>>, TabX),
    SidebarDoc(P_ghd, P_ghd, <<2>>, TabX, <<>>) }

\* the lists of at most MaxDocs documents with pairwise distinct files
DocLists ==
  { l \in UNION { [1..n -> DocPool] : n \in 0..MaxDocs } :
      \A i, j \in 1..Len(l) : i # j => l[i].filePath # l[j].filePath }

Slugs == {P_a, P_b, P_gc, P_g, P_ghd, P_unknown}

InitSidebar ==
  /\ SanitizeIdle /\ ScanIdle /\ ProxyIdle /\ SseIdle /\ DocsIdle /\ CacheIdle
  /\ allDocs \in DocLists
  /\ currentSlug \in Slugs
  /\ adjacent = None
  /\ isCategory = None /\ sidebar = None

CallGetAdjacentDocs ==
  /\ adjacent = None
  /\ adjacent' = getAdjacentDocs(currentSlug, allDocs)
  /\ UNCHANGED <<allDocs, currentSlug, isCategory, sidebar, sanitizeVars, scanVars, proxyVars, sseVars, docsVars, cacheVars>>

NextSidebar == CallGetAdjacentDocs

SpecSidebar == InitSidebar /\ [][NextSidebar]_vars

\* the order of the sidebar for the document list at hand
SidebarOrder == flattenSidebarOrder(buildSidebarStructure(allDocs))

\* the tab group a document is filed under: its own, else its category's
\* (no group: the empty value)
TabMembership(doc) ==
  IF doc.meta.tab_group # <<>> THEN doc.meta.tab_group ELSE doc.categoryTabGroup

\* C9: getAdjacentDocs returns, for the first document of the sidebar order
\* with the given slug, the nearest document before it and the nearest
\* document after it that have the same tab membership (the same tab group,
\* or no tab group like it); none where there is no such document, and
\* neither for a slug that is not in the order.
C9_AdjacentWithinTabClass ==
  adjacent # None =>
    LET order == SidebarOrder
        at == { i \in 1..Len(order) : order[i].slug = currentSlug }
    IN IF at = {} THEN adjacent = [previous |-> None, next |-> None]
       ELSE
         LET cur == CHOOSE i \in at : \A k \in at : i <= k
             class == { i \in 1..Len(order) :
                          TabMembership(order[i]) = TabMembership(order[cur]) }
             before == { i \in class : i < cur }
             after == { i \in class : i > cur }
         IN /\ adjacent.previous =
                 IF before = {} THEN None
                 ELSE order[CHOOSE i \in before : \A k \in before : k <= i]
            /\ adjacent.next =
                 IF after = {} THEN None
                 ELSE order[CHOOSE i \in after : \A k \in after : i <= k]

\* witness of C9: order [a(tab x), b(no tab), g/h/d(tab x)]; the lookup of a
\* skips b and returns no previous and g/h/d as next
C9_Witness ==
  /\ adjacent # None
  /\ currentSlug = P_a
  /\ Len(SidebarOrder) = 3
  /\ SidebarOrder[1].slug = P_a /\ TabMembership(SidebarOrder[1]) = TabX
  /\ SidebarOrder[2].slug = P_b /\ TabMembership(SidebarOrder[2]) = <<>>
  /\ SidebarOrder[3].slug = P_ghd /\ TabMembership(SidebarOrder[3]) = TabX
  /\ adjacent.previous = None
  /\ adjacent.next = SidebarOrder[3]

-----------------------------------------------------------------------------
(* Specification of the sidebar order: documents with positions of their   *)
(* own, in folders with category positions, are drawn in any order; then   *)
(* getAdjacentDocs builds the tree, flattens it and looks up a slug.       *)

P_index == IndexName
P_km == <<"k", "/", "m">>

\* a document with its own position and the position of its folder's
\* category descriptor
OrderDoc(filePath, slug, position, categoryPosition) ==
  [SidebarDoc(filePath, slug, position, <<>>, <<>>) EXCEPT
     !.categoryPosition = categoryPosition]

OrderPool(posG, posH) ==
  { OrderDoc(P_a, P_a, <<>>, <<>>),
    OrderDoc(P_a, P_a, <<2>>, <<>>),
    [OrderDoc(P_b, P_b, <<>>, <<>>) EXCEPT !.meta.order = <<1>>],
    OrderDoc(P_index, P_index, <<>>, <<>>),
    OrderDoc(P_gc, P_gc, <<>>, posG),
    OrderDoc(P_gc, P_gc, <<1>>, posG),
    OrderDoc(P_gc, P_gc, <<3>>, posG),
    OrderDoc(P_gindex, P_gindex, <<>>, posG),
    OrderDoc(P_ghd, P_ghd, <<>>, posH),
    OrderDoc(P_ghd, P_ghd, <<1>>, posH),
    OrderDoc(P_km, P_km, <<>>, <<1>>),
    [sidebar |-> <<"n">>] @@ OrderDoc(P_km, P_km, <<1>>, <<1>>),
    [group |-> <<"n">>, sidebar_position |-> <<1>>] @@ OrderDoc(P_gindex, P_gindex, <<>>, posG) }

\* lists as getAllDocs returns them: one document per file and per slug
OrderLists(posG, posH) ==
  { l \in UNION { [1..n -> OrderPool(posG, posH)] : n \in 0..MaxDocs } :
      \A i, j \in 1..Len(l) : i # j => l[i].filePath # l[j].filePath }

InitOrder ==
  /\ SanitizeIdle /\ ScanIdle /\ ProxyIdle /\ SseIdle /\ DocsIdle /\ CacheIdle
  /\ \E posG, posH \in {<<>>, <<2>>} : allDocs \in OrderLists(posG, posH)
  /\ currentSlug \in {P_a, P_gc, P_gindex, P_index}
  /\ adjacent = None
  /\ isCategory = None /\ sidebar = None

NextOrder == CallGetAdjacentDocs

SpecOrder == InitOrder /\ [][NextOrder]_vars

\* the tree of the document list at hand
C25_Tree == buildSidebarStructure(allDocs)

\* where the tree holds a document: the key of its group (the empty key for
\* a standalone document) and its place among the items pushed there
C25_Places(doc) ==
  { [key |-> <<>>, at |-> j] : j \in { j \in 1..Len(C25_Tree.standalone) :
                                         C25_Tree.standalone[j] = doc } }
  \cup UNION { { [key |-> C25_Tree.groups[g].key, at |-> j] :
                   j \in { j \in 1..Len(C25_Tree.groups[g].items) :
                             C25_Tree.groups[g].items[j] = doc } } :
               g \in 1..Len(C25_Tree.groups) }

C25_Place(doc) == CHOOSE p \in C25_Places(doc) : TRUE

\* what stands for the document at place p in the merged list of the group
\* n keys deep on its path: the document itself, or the child group that
\* holds it; with the position the merged list is sorted by and, for equal
\* positions, the rank of the entry before the sort (child groups in the
\* order of their creation, then items in the order they were pushed)
C25_Entry(doc, p, n) ==
  IF Len(p.key) = n
  THEN [position |-> OrderHint(doc), item |-> 1, rank |-> p.at]
  ELSE [position |-> C25_Tree.groups[GroupIndex(C25_Tree.groups, SubSeq(p.key, 1, n + 1))].position,
        item |-> 0,
        rank |-> GroupIndex(C25_Tree.groups, SubSeq(p.key, 1, n + 1))]

C25_EntryBefore(x, y) ==
  \/ x.position < y.position
  \/ x.position = y.position /\ x.item < y.item
  \/ x.position = y.position /\ x.item = y.item /\ x.rank < y.rank

\* the order the claim gives to two documents at the places p and q
C25_Before(d1, p, d2, q) ==
  IF p.key = <<>> \/ q.key = <<>>
  THEN \/ p.key = <<>> /\ q.key # <<>>
       \/ p.key = <<>> /\ q.key = <<>>
          /\ C25_EntryBefore(C25_Entry(d1, p, 0), C25_Entry(d2, q, 0))
  ELSE C25_EntryBefore(C25_Entry(d1, p, CommonPrefixLen(p.key, q.key)),
                       C25_Entry(d2, q, CommonPrefixLen(p.key, q.key)))

\* C25: in the flattened order the standalone documents come first, sorted
\* by position, then the root groups by position, each depth-first; inside
\* a group its child groups (by stored position) and its documents (by
\* sidebar_position, else order, else 999) form one list sorted ascending
\* and stably by position, and a child group's documents stand at that
\* group's place.
C25_MergedByPosition ==
  adjacent # None =>
    \A i, j \in 1..Len(SidebarOrder) :
      i < j => C25_Before(SidebarOrder[i], C25_Place(SidebarOrder[i]),
                          SidebarOrder[j], C25_Place(SidebarOrder[j]))

\* witness of C25: in the group g the child group h (position 2) stands
\* between no document before it and g/c (position 3) after it, and the
\* standalone document comes first
C25_Witness ==
  /\ adjacent # None
  /\ Len(SidebarOrder) = 3
  /\ SidebarOrder[1].filePath = P_a
  /\ SidebarOrder[2].filePath = P_ghd
  /\ SidebarOrder[3].filePath = P_gc /\ OrderHint(SidebarOrder[3]) = 3
  /\ allDocs[1].filePath = P_gc /\ allDocs[2].filePath = P_ghd

\* C28: the flattened order holds every document of the list that is not a
\* folder index exactly once and no folder index, and the lookup of a folder
\* index's slug returns neither a previous nor a next document.
C28_OrderOmitsIndexDocuments ==
  adjacent # None =>
    /\ \A i \in 1..Len(allDocs) :
         Cardinality({ j \in 1..Len(SidebarOrder) : SidebarOrder[j] = allDocs[i] })
           = IF isIndexFile(allDocs[i]) THEN 0 ELSE 1
    /\ \A j \in 1..Len(SidebarOrder) : \E i \in 1..Len(allDocs) : allDocs[i] = SidebarOrder[j]
    /\ (\E i \in 1..Len(allDocs) : isIndexFile(allDocs[i]) /\ allDocs[i].slug = currentSlug)
         => adjacent = Neither

\* witness of C28: the folder index g/index is looked up in a list that
\* also holds a document of its folder and a standalone document
C28_Witness ==
  /\ adjacent # None
  /\ currentSlug = P_gindex
  /\ \E i \in 1..Len(allDocs) : allDocs[i].filePath = P_gindex
  /\ Len(SidebarOrder) = 2

-----------------------------------------------------------------------------
(* Specification of the tree construction: the folders g and g/h have a    *)
(* category position or none, a list of documents annotated accordingly is *)
(* drawn in any order, then the sidebar builds its tree from it.           *)

P_ghindex == <<"g", "/", "h", "/", "i", "n", "d", "e", "x">>
P_gh == <<"g", "/", "h">>

CategoryPositions == { <<>>, <<1>>, <<2>> }

\* a document as the category overlay of getAllDocs annotates it
TreeDoc(filePath, slug, categoryPosition) ==
  [SidebarDoc(filePath, slug, <<>>, <<>>, <<>>) EXCEPT !.categoryPosition = categoryPosition]

TreePool(posG, posH) ==
  { TreeDoc(P_a, P_a, <<>>),
    TreeDoc(P_gc, P_gc, posG),
    TreeDoc(P_gindex, P_g, posG),
    TreeDoc(P_ghd, P_ghd, posH),
    TreeDoc(P_ghindex, P_gh, posH) }

TreeLists(posG, posH) ==
  { l \in UNION { [1..n -> TreePool(posG, posH)] : n \in 0..MaxDocs } :
      \A i, j \in 1..Len(l) : i # j => l[i] # l[j] }

InitTree ==
  /\ SanitizeIdle /\ ScanIdle /\ ProxyIdle /\ SseIdle /\ DocsIdle /\ CacheIdle
  /\ \E posG, posH \in CategoryPositions : allDocs \in TreeLists(posG, posH)
  /\ currentSlug = <<>>
  /\ adjacent = None /\ isCategory = None /\ sidebar = None

BuildSidebarTree ==
  /\ sidebar = None
  /\ sidebar' = buildSidebarStructure(allDocs)
  /\ UNCHANGED <<allDocs, currentSlug, adjacent, isCategory, sanitizeVars, scanVars, proxyVars, sseVars, docsVars, cacheVars>>

NextTree == BuildSidebarTree

SpecTree == InitTree /\ [][NextTree]_vars

\* the documents of the list that lie directly in the folder of a group
C20_Direct(key) ==
  { i \in 1..Len(allDocs) : dirname(allDocs[i].filePath) = Join(key, "/") }

C20_Index(key) == { i \in C20_Direct(key) : isIndexFile(allDocs[i]) }

\* the position the folder's own index file or category descriptor gives
C20_OwnPosition(key) ==
  IF C20_Index(key) # {}
  THEN LET d == allDocs[CHOOSE i \in C20_Index(key) : TRUE]
       IN Coalesce(Coalesce(d.categoryPosition, Field(d, "sidebar_position")),
                   <<Unordered>>)[1]
  ELSE IF C20_Direct(key) # {}
  THEN Coalesce(allDocs[CHOOSE i \in C20_Direct(key) : TRUE].categoryPosition,
                <<Unordered>>)[1]
  ELSE Unordered

\* C20: every group of the built tree has the position its own folder's
\* index file or category descriptor gives, and 999 when the folder has
\* neither; also a group made while a deeper document was placed, and in
\* whatever order the documents are placed.
C20_GroupPositionFromOwnFolder ==
  sidebar # None =>
    \A i \in 1..Len(sidebar.groups) :
      sidebar.groups[i].position = C20_OwnPosition(sidebar.groups[i].key)

-----------------------------------------------------------------------------
(* Category pages (mdx.ts isCategoryPage, called by the documentation page *)
(* with the slug of the request and the corpus of its version).            *)

\* parts.slice(0, -1).join("/") of doc.slug.split("/")
DocParent(slug) == Join(SubSeq(Split(slug, "/"), 1, Len(Split(slug, "/")) - 1), "/")

\* variant of isCategoryPage that accepts any document below the slug
isCategoryPageAnyDepth(slug, docs) ==
  \E i \in 1..Len(docs) : StartsWith(docs[i].slug, slug \o <<"/">>)

isCategoryPage(slug, docs) ==
  \E i \in 1..Len(docs) : DocParent(docs[i].slug) = slug /\ docs[i].slug # slug

\* slugs of the corpus and of requests: a folder with a direct child, a
\* folder with documents only deeper down, a folder whose name begins with
\* another's, the empty slug of the version root
P_ggc == <<"g", "g", "/", "c">>

PageDocs ==
  { SidebarDoc(slug, slug, <<>>, <<>>, <<>>) : slug \in {P_a, P_g, P_gc, P_ghd, P_ggc} }

PageDocLists == UNION { [1..n -> PageDocs] : n \in 0..MaxDocs }

PageSlugs == {P_a, P_g, P_gc, P_gh, P_ghd, P_ggc, P_unknown, <<>>}

InitPage ==
  /\ SanitizeIdle /\ ScanIdle /\ ProxyIdle /\ SseIdle /\ DocsIdle /\ CacheIdle
  /\ allDocs \in PageDocLists
  /\ currentSlug \in PageSlugs
  /\ adjacent = None
  /\ isCategory = None /\ sidebar = None

CallIsCategoryPage ==
  /\ isCategory = None
  /\ isCategory' = [value |-> isCategoryPage(currentSlug, allDocs)]
  /\ UNCHANGED <<allDocs, currentSlug, adjacent, sidebar, sanitizeVars, scanVars, proxyVars, sseVars, docsVars, cacheVars>>

NextPage == CallIsCategoryPage

SpecPage == InitPage /\ [][NextPage]_vars

\* the path a slug lies directly under: what precedes its last "/", the
\* empty path of the root for a slug without "/"
C14_ParentPath(slug) ==
  LET at == { i \in 1..Len(slug) : slug[i] = "/" }
  IN IF at = {} THEN <<>>
     ELSE SubSeq(slug, 1, (CHOOSE i \in at : \A k \in at : k <= i) - 1)

\* C14: isCategoryPage(slug, docs) is true exactly when some document of
\* docs with another slug lies directly under slug, that is, has slug as
\* its parent path.
C14_CategoryIffDirectChild ==
  isCategory # None =>
    (isCategory.value <=>
       \E i \in 1..Len(allDocs) :
         allDocs[i].slug # currentSlug /\ C14_ParentPath(allDocs[i].slug) = currentSlug)

\* witness of C14: the corpus [g, g/c] makes g a category page
C14_Witness ==
  /\ isCategory # None /\ isCategory.value
  /\ currentSlug = P_g
  /\ Len(allDocs) = 2 /\ allDocs[1].slug = P_g /\ allDocs[2].slug = P_gc

\* the other half of the example of C14: in the same corpus g/c is none
C14_WitnessLeaf ==
  /\ isCategory # None /\ ~isCategory.value
  /\ currentSlug = P_gc
  /\ Len(allDocs) = 2 /\ allDocs[1].slug = P_g /\ allDocs[2].slug = P_gc

-----------------------------------------------------------------------------
(* Cache layer (mdx-cache.ts).  The resolvers are abstracted to the        *)
(* generation of the content they read: the cache never looks into the     *)
(* data it stores.  A miss of an async wrapper takes two steps, the call   *)
(* up to its await and the continuation that stores the result.            *)

MaxAccesses == 2

isDevelopment == nodeEnv = "development"

CACHE_TTL == IF isDevelopment THEN 5000 ELSE 60000

\* instants at which the clock is observed: around the expiry limit
Times == IF isDevelopment THEN {0, 1, 4999, 5000} ELSE {0, 1, 59999, 60000}

\* variant of isCacheValid that still accepts an entry of age CACHE_TTL
isCacheValidInclusive(timestamp) == now - timestamp <= CACHE_TTL

isCacheValid(timestamp) == now - timestamp < CACHE_TTL

\* what getVersions / getAllDocs / getDocBySlug return for content at
\* generation gen; the slug Missing has no file
ResolverResult(kind, key, gen) ==
  IF kind = "docBySlug" /\ EndsWith(key, <<":">> \o Missing)
  THEN None
  ELSE [kind |-> kind, key |-> key, gen |-> gen]

Entry(data, timestamp) == [data |-> data, timestamp |-> timestamp]

AccessRecord(cache, key, hit, had, stamp, data) ==
  [cache |-> cache, key |-> key, at |-> now, hit |-> hit,
   had |-> had, stamp |-> stamp, data |-> data]

\* variant of initializeWatchers that never sets watchersInitialized
initializeWatchersNoFlag(ok) ==
  IF ~isDevelopment \/ watchersInitialized
  THEN UNCHANGED <<watchersInitialized, watchCalls, watching>>
  ELSE /\ watchersInitialized' = watchersInitialized
       /\ watchCalls' = watchCalls + 1
       /\ watching' = ok

\* variant of initializeWatchers that sets watchersInitialized only once
\* fs.watch has succeeded
initializeWatchersFlagOnSuccess(ok) ==
  IF ~isDevelopment \/ watchersInitialized
  THEN UNCHANGED <<watchersInitialized, watchCalls, watching>>
  ELSE /\ watchersInitialized' = ok
       /\ watchCalls' = watchCalls + 1
       /\ watching' = ok

\* initializeWatchers(); ok tells whether fs.watch succeeds
initializeWatchers(ok) ==
  IF ~isDevelopment \/ watchersInitialized
  THEN UNCHANGED <<watchersInitialized, watchCalls, watching>>
  ELSE /\ watchersInitialized' = TRUE
       /\ watchCalls' = watchCalls + 1
       /\ watching' = ok

\* variant of GetCachedVersions that refreshes the list and keeps the old
\* timestamp
GetCachedVersionsKeepsTimestamp ==
  /\ accessCount < MaxAccesses
  /\ accessCount' = accessCount + 1
  /\ \E ok \in BOOLEAN : initializeWatchers(ok)
  /\ IF versionsCache.data # None /\ isCacheValid(versionsCache.timestamp)
     THEN /\ lastAccess' = AccessRecord("versions", <<>>, TRUE, TRUE,
                                        versionsCache.timestamp, versionsCache.data)
          /\ UNCHANGED versionsCache
     ELSE LET versions == ResolverResult("versions", <<>>, fsGen) IN
          /\ versionsCache' = Entry(versions, versionsCache.timestamp)
          /\ lastAccess' = AccessRecord("versions", <<>>, FALSE, versionsCache.data # None,
                                        versionsCache.timestamp, versions)
  /\ UNCHANGED <<now, allDocsCache, docBySlugCache, pending, fsGen,
                 sanitizeVars, scanVars, proxyVars, sseVars, docsVars, sidebarVars>>

GetCachedVersions ==
  /\ accessCount < MaxAccesses
  /\ accessCount' = accessCount + 1
  /\ \E ok \in BOOLEAN : initializeWatchers(ok)
  /\ IF versionsCache.data # None /\ isCacheValid(versionsCache.timestamp)
     THEN /\ lastAccess' = AccessRecord("versions", <<>>, TRUE, TRUE,
                                        versionsCache.timestamp, versionsCache.data)
          /\ UNCHANGED versionsCache
     ELSE LET versions == ResolverResult("versions", <<>>, fsGen) IN
          /\ versionsCache' = Entry(versions, now)
          /\ lastAccess' = AccessRecord("versions", <<>>, FALSE, versionsCache.data # None,
                                        versionsCache.timestamp, versions)
  /\ UNCHANGED <<now, allDocsCache, docBySlugCache, pending, fsGen,
                 sanitizeVars, scanVars, proxyVars, sseVars, docsVars, sidebarVars>>

\* getCachedAllDocs(version) up to `await getAllDocs(version)`
StartGetCachedAllDocs(version) ==
  /\ accessCount < MaxAccesses
  /\ accessCount' = accessCount + 1
  /\ \E ok \in BOOLEAN : initializeWatchers(ok)
  /\ LET cached == allDocsCache[version] IN
     IF cached # None /\ isCacheValid(cached.timestamp)
     THEN /\ lastAccess' = AccessRecord("allDocs", version, TRUE, TRUE,
                                        cached.timestamp, cached.data)
          /\ UNCHANGED pending
     ELSE /\ lastAccess' = AccessRecord("allDocs", version, FALSE, cached # None,
                                        IF cached # None THEN cached.timestamp ELSE 0, None)
          /\ pending' = pending \cup
               {[id |-> accessCount + 1, cache |-> "allDocs", key |-> version,
                 data |-> ResolverResult("allDocs", version, fsGen)]}
  /\ UNCHANGED <<now, versionsCache, allDocsCache, docBySlugCache, fsGen,
                 sanitizeVars, scanVars, proxyVars, sseVars, docsVars, sidebarVars>>

\* the rest of getCachedAllDocs: allDocsCache.set(version, ...)
FinishGetCachedAllDocs(p) ==
  /\ p \in pending /\ p.cache = "allDocs"
  /\ allDocsCache' = [allDocsCache EXCEPT ![p.key] = Entry(p.data, now)]
  /\ pending' = pending \ {p}
  /\ lastAccess' = None
  /\ UNCHANGED <<now, versionsCache, docBySlugCache, watchersInitialized, watchCalls,
                 watching, fsGen, accessCount,
                 sanitizeVars, scanVars, proxyVars, sseVars, docsVars, sidebarVars>>

\* variant of StartGetCachedDocBySlug that counts a stored null as no entry
\* (`cached.data &&` in place of `cached &&`)
StartGetCachedDocBySlugNullIsMiss(cacheKey) ==
  /\ accessCount < MaxAccesses
  /\ accessCount' = accessCount + 1
  /\ \E ok \in BOOLEAN : initializeWatchers(ok)
  /\ LET cached == docBySlugCache[cacheKey] IN
     IF cached # None /\ cached.data # None /\ isCacheValid(cached.timestamp)
     THEN /\ lastAccess' = AccessRecord("docBySlug", cacheKey, TRUE, TRUE,
                                        cached.timestamp, cached.data)
          /\ UNCHANGED pending
     ELSE /\ lastAccess' = AccessRecord("docBySlug", cacheKey, FALSE, cached # None,
                                        IF cached # None THEN cached.timestamp ELSE 0, None)
          /\ pending' = pending \cup
               {[id |-> accessCount + 1, cache |-> "docBySlug", key |-> cacheKey,
                 data |-> ResolverResult("docBySlug", cacheKey, fsGen)]}
  /\ UNCHANGED <<now, versionsCache, allDocsCache, docBySlugCache, fsGen,
                 sanitizeVars, scanVars, proxyVars, sseVars, docsVars, sidebarVars>>

\* getCachedDocBySlug(slug, version) up to `await getDocBySlug(slug, version)`
StartGetCachedDocBySlug(cacheKey) ==
  /\ accessCount < MaxAccesses
  /\ accessCount' = accessCount + 1
  /\ \E ok \in BOOLEAN : initializeWatchers(ok)
  /\ LET cached == docBySlugCache[cacheKey] IN
     IF cached # None /\ isCacheValid(cached.timestamp)
     THEN /\ lastAccess' = AccessRecord("docBySlug", cacheKey, TRUE, TRUE,
                                        cached.timestamp, cached.data)
          /\ UNCHANGED pending
     ELSE /\ lastAccess' = AccessRecord("docBySlug", cacheKey, FALSE, cached # None,
                                        IF cached # None THEN cached.timestamp ELSE 0, None)
          /\ pending' = pending \cup
               {[id |-> accessCount + 1, cache |-> "docBySlug", key |-> cacheKey,
                 data |-> ResolverResult("docBySlug", cacheKey, fsGen)]}
  /\ UNCHANGED <<now, versionsCache, allDocsCache, docBySlugCache, fsGen,
                 sanitizeVars, scanVars, proxyVars, sseVars, docsVars, sidebarVars>>

\* the rest of getCachedDocBySlug: docBySlugCache.set(cacheKey, ...)
FinishGetCachedDocBySlug(p) ==
  /\ p \in pending /\ p.cache = "docBySlug"
  /\ docBySlugCache' = [docBySlugCache EXCEPT ![p.key] = Entry(p.data, now)]
  /\ pending' = pending \ {p}
  /\ lastAccess' = None
  /\ UNCHANGED <<now, versionsCache, allDocsCache, watchersInitialized, watchCalls,
                 watching, fsGen, accessCount,
                 sanitizeVars, scanVars, proxyVars, sseVars, docsVars, sidebarVars>>

clearAllCaches ==
  /\ versionsCache' = [versionsCache EXCEPT !.data = None]
  /\ allDocsCache' = [v \in CacheVersions |-> None]
  /\ docBySlugCache' = [k \in DocKeys |-> None]
  /\ lastAccess' = None
  /\ UNCHANGED <<now, watchersInitialized, watchCalls, watching, pending, fsGen,
                 accessCount, sanitizeVars, scanVars, proxyVars, sseVars, docsVars, sidebarVars>>

\* file names a watch event may carry (none: the empty value)
JsonExt == <<".", "j", "s", "o", "n">>
WatchedNames ==
  { <<>>,
    V2 \o <<"\\", "a">> \o MdxExt,
    V1 \o <<"/">> \o CategoryFile,
    V1 \o <<"/", "n", ".", "t", "x", "t">> }

\* variant of WatchCallback that matches document keys by the version name
\* alone, without the separator of version and slug
WatchCallbackBareVersionPrefix(eventType, filename) ==
  /\ watching /\ pending = {}
  /\ IF filename # <<>> /\ (EndsWith(filename, MdxExt) \/ EndsWith(filename, JsonExt))
     THEN LET version == Split(ReplaceBackslashes(filename), "/")[1] IN
          /\ allDocsCache' = [v \in CacheVersions |->
                                IF v = version THEN None ELSE allDocsCache[v]]
          /\ docBySlugCache' = [k \in DocKeys |->
                                  IF StartsWith(k, version)
                                  THEN None ELSE docBySlugCache[k]]
          /\ versionsCache' = IF eventType = "rename"
                              THEN [versionsCache EXCEPT !.data = None]
                              ELSE versionsCache
     ELSE UNCHANGED <<versionsCache, allDocsCache, docBySlugCache>>
  /\ lastAccess' = None
  /\ UNCHANGED <<now, watchersInitialized, watchCalls, watching, pending, fsGen,
                 accessCount, sanitizeVars, scanVars, proxyVars, sseVars, docsVars, sidebarVars>>

\* the callback handed to fs.watch
WatchCallback(eventType, filename) ==
  /\ watching /\ pending = {}
  /\ IF filename # <<>> /\ (EndsWith(filename, MdxExt) \/ EndsWith(filename, JsonExt))
     THEN LET version == Split(ReplaceBackslashes(filename), "/")[1] IN
          /\ allDocsCache' = [v \in CacheVersions |->
                                IF v = version THEN None ELSE allDocsCache[v]]
          /\ docBySlugCache' = [k \in DocKeys |->
                                  IF StartsWith(k, version \o <<":">>)
                                  THEN None ELSE docBySlugCache[k]]
          /\ versionsCache' = IF eventType = "rename"
                              THEN [versionsCache EXCEPT !.data = None]
                              ELSE versionsCache
     ELSE UNCHANGED <<versionsCache, allDocsCache, docBySlugCache>>
  /\ lastAccess' = None
  /\ UNCHANGED <<now, watchersInitialized, watchCalls, watching, pending, fsGen,
                 accessCount, sanitizeVars, scanVars, proxyVars, sseVars, docsVars, sidebarVars>>

\* the clock moves on
Tick ==
  /\ \E t \in Times : t > now /\ now' = t
  /\ lastAccess' = None
  /\ UNCHANGED <<versionsCache, allDocsCache, docBySlugCache, watchersInitialized,
                 watchCalls, watching, pending, fsGen, accessCount,
                 sanitizeVars, scanVars, proxyVars, sseVars, docsVars, sidebarVars>>

\* the content on disk is edited (edits that no access can tell apart are
\* not told apart: at most one per access made)
ChangeContent ==
  /\ fsGen < accessCount
  /\ fsGen' = fsGen + 1
  /\ lastAccess' = None
  /\ UNCHANGED <<now, versionsCache, allDocsCache, docBySlugCache, watchersInitialized,
                 watchCalls, watching, pending, accessCount,
                 sanitizeVars, scanVars, proxyVars, sseVars, docsVars, sidebarVars>>

InitCache ==
  /\ SanitizeIdle /\ ScanIdle /\ ProxyIdle /\ SseIdle /\ SidebarIdle /\ CacheIdle
  /\ fsFiles = <<>> /\ mdxOrder = <<>> /\ i18n = None
  /\ call = [op |-> "none"] /\ result = [doc |-> None, docs |-> <<>>] /\ fsLog = <<>>
  /\ nodeEnv \in {"production", "development"}

NextCache ==
  \/ GetCachedVersions
  \/ \E version \in CacheVersions : StartGetCachedAllDocs(version)
  \/ \E p \in pending : FinishGetCachedAllDocs(p)
  \/ \E cacheKey \in DocKeys : StartGetCachedDocBySlug(cacheKey)
  \/ \E p \in pending : FinishGetCachedDocBySlug(p)
  \/ clearAllCaches
  \/ \E eventType \in {"rename", "change"}, filename \in WatchedNames :
       WatchCallback(eventType, filename)
  \/ Tick
  \/ ChangeContent

SpecCache == InitCache /\ [][NextCache]_vars

\* C10: an access is a hit exactly when the key has an entry and the entry's
\* age, now minus its timestamp, is below the time to live: 5000 ms in
\* development, 60000 ms otherwise; and whenever an entry is written it is
\* stamped with the time of the write.
C10_HitIffYoungerThanTtl ==
  /\ [](lastAccess # None =>
          LET ttl == IF nodeEnv = "development" THEN 5000 ELSE 60000
          IN lastAccess.hit <=> (lastAccess.had /\ lastAccess.at - lastAccess.stamp < ttl))
  /\ [][ /\ versionsCache' # versionsCache /\ versionsCache'.data # None
            => versionsCache'.timestamp = now'
         /\ \A v \in CacheVersions :
              (allDocsCache'[v] # allDocsCache[v] /\ allDocsCache'[v] # None)
                => allDocsCache'[v].timestamp = now'
         /\ \A k \in DocKeys :
              (docBySlugCache'[k] # docBySlugCache[k] /\ docBySlugCache'[k] # None)
                => docBySlugCache'[k].timestamp = now' ]_vars

\* witness of C10: in production an entry stamped at 0 is accessed at 60000
\* and missed
C10_Witness ==
  /\ nodeEnv = "production"
  /\ lastAccess # None
  /\ lastAccess.had /\ lastAccess.stamp = 0 /\ lastAccess.at = 60000
  /\ ~lastAccess.hit

\* C11 as stated: once a cached entry point has been called, fs.watch on the
\* content root has been called exactly once.
C11_WatchInitializedOnce == accessCount >= 1 => watchCalls = 1

\* C11, amended: once a cached entry point has been called, fs.watch on the
\* content root has been called exactly once in development mode and not
\* at all in any other mode.
C11_WatchInitializedOnceInDevelopment ==
  accessCount >= 1 => watchCalls = (IF nodeEnv = "development" THEN 1 ELSE 0)

\* witness of C11: in development, after two calls of entry points, fs.watch
\* has been called once
C11_Witness ==
  nodeEnv = "development" /\ accessCount = 2 /\ watchCalls = 1 /\ watchersInitialized

\* C12: whatever calls are made and however they interleave, fs.watch is
\* called at most once; once an attempt has been made, successful or not,
\* no step calls fs.watch again or changes the subscription.
C12_WatchCreatedAtMostOnce ==
  /\ [](watchCalls <= 1 /\ (watching => watchCalls = 1))
  /\ [][watchCalls >= 1 => (watchCalls' = watchCalls /\ watching' = watching)]_vars

\* witness of C12: the only attempt failed and a second entry point has been
\* called since
C12_Witness ==
  nodeEnv = "development" /\ accessCount = 2 /\ watchCalls = 1 /\ ~watching

\* the event's file has a name and the name ends in .mdx or .json
C13_Relevant(filename) ==
  filename # <<>> /\ (EndsWith(filename, MdxExt) \/ EndsWith(filename, JsonExt))

\* the event's relative path lies under the folder of version v
C13_Under(filename, v) ==
  StartsWith(filename, v \o <<"/">>) \/ StartsWith(filename, v \o <<"\\">>)

\* k is the key of a document entry of version v
C13_KeyOf(k, v) == \E slug \in {<<"a">>, Missing} : k = CacheKey(v, slug)

\* C13: a watch event for a file under the folder of version v whose name
\* ends in .mdx or .json empties the corpus entry of v and the document
\* entries of v, empties the version list if and only if the event is a
\* rename, and leaves every entry of every other version as it was; an
\* event for a file with another suffix, or without a file name, leaves the
\* three caches as they were.
C13_WatchEventEvictsItsVersion ==
  [][\A eventType \in {"rename", "change"}, filename \in WatchedNames :
       WatchCallback(eventType, filename) =>
         IF C13_Relevant(filename)
         THEN \A v \in CacheVersions \cup {V10} :
                C13_Under(filename, v) =>
                  /\ allDocsCache' = [u \in CacheVersions |->
                                        IF u = v THEN None ELSE allDocsCache[u]]
                  /\ docBySlugCache' = [k \in DocKeys |->
                                          IF C13_KeyOf(k, v) THEN None
                                          ELSE docBySlugCache[k]]
                  /\ versionsCache' =
                       IF eventType = "rename"
                       THEN [data |-> None, timestamp |-> versionsCache.timestamp]
                       ELSE versionsCache
         ELSE UNCHANGED <<versionsCache, allDocsCache, docBySlugCache>>]_vars

\* witness of C13: the corpus entry of V2 written at time 0 is still there
\* while the version list written at time 1 has been emptied; clearAllCaches
\* would have emptied both, so a rename event of another version has acted
C13_Witness ==
  /\ watching
  /\ allDocsCache[V2] # None /\ allDocsCache[V2].timestamp = 0
  /\ versionsCache.data = None /\ versionsCache.timestamp = 1

\* the keys of the three caches
C21_Keys ==
  {[cache |-> "versions", key |-> <<>>]}
  \cup {[cache |-> "allDocs", key |-> v] : v \in CacheVersions}
  \cup {[cache |-> "docBySlug", key |-> k] : k \in DocKeys}

\* the entry of key k in caches of the given values, None if it has none
C21_EntryOf(vc, adc, dbc, k) ==
  IF k.cache = "versions" THEN (IF vc.data = None THEN None ELSE vc)
  ELSE IF k.cache = "allDocs" THEN adc[k.key]
  ELSE dbc[k.key]

\* the state of a key whose entry is e at time t
C21_Kind(e, t) ==
  IF e = None THEN "Empty"
  ELSE IF t - e.timestamp >= CACHE_TTL THEN "Stale" ELSE "Populated"

\* the moves of the state machine as stated, from entry e at time t to
\* entry e2 at time t2
C21_StatedMove(e, t, e2, t2) ==
  \/ e2 = e /\ C21_Kind(e2, t2) = C21_Kind(e, t)
  \/ C21_Kind(e, t) = "Empty" /\ C21_Kind(e2, t2) = "Populated" /\ e2.timestamp = t2
  \/ C21_Kind(e, t) = "Populated" /\ C21_Kind(e2, t2) = "Stale" /\ e2 = e
  \/ C21_Kind(e, t) = "Stale" /\ C21_Kind(e2, t2) = "Empty"
  \/ C21_Kind(e, t) = "Stale" /\ C21_Kind(e2, t2) = "Populated" /\ e2.timestamp = t2

\* the two further moves of a key that is Populated: eviction, and a new
\* entry stamped with the current time
C21_FurtherMove(e, t, e2, t2) ==
  \/ C21_Kind(e, t) = "Populated" /\ C21_Kind(e2, t2) = "Empty"
  \/ C21_Kind(e, t) = "Populated" /\ C21_Kind(e2, t2) = "Populated" /\ e2.timestamp = t2

\* an access is served from the cache exactly when its key is Populated
C21_HitIffPopulated ==
  lastAccess' # None =>
    (lastAccess'.hit <=>
       C21_Kind(C21_EntryOf(versionsCache, allDocsCache, docBySlugCache,
                            [cache |-> lastAccess'.cache, key |-> lastAccess'.key]),
                now) = "Populated")

\* C21 as stated: every step moves every cache key along Empty ->
\* Populated(now) -> Stale -> Empty or Stale -> Populated(now) or leaves it
\* where it is, a key being Stale exactly when now - timestamp >= TTL.
C21_OnlyStatedMoves ==
  [][/\ C21_HitIffPopulated
     /\ \A k \in C21_Keys :
          C21_StatedMove(C21_EntryOf(versionsCache, allDocsCache, docBySlugCache, k), now,
                         C21_EntryOf(versionsCache', allDocsCache', docBySlugCache', k), now')]_vars

\* C21 (amended): besides the stated moves a Populated key may be evicted
\* before it is Stale (watch event, clearAllCaches) and may receive a new
\* entry stamped with the current time (the continuation of a miss that
\* overlapped another miss of the key); nothing else happens to a key.
C21_StatedOrFurtherMoves ==
  [][/\ C21_HitIffPopulated
     /\ \A k \in C21_Keys :
          \/ C21_StatedMove(C21_EntryOf(versionsCache, allDocsCache, docBySlugCache, k), now,
                            C21_EntryOf(versionsCache', allDocsCache', docBySlugCache', k), now')
          \/ C21_FurtherMove(C21_EntryOf(versionsCache, allDocsCache, docBySlugCache, k), now,
                             C21_EntryOf(versionsCache', allDocsCache', docBySlugCache', k), now')]_vars

\* witness of C21: a key went from Empty to Populated at time 0 and is Stale
\* now, and another one was populated at the current time
C21_Witness ==
  /\ allDocsCache[V1] # None /\ allDocsCache[V1].timestamp = 0
  /\ C21_Kind(allDocsCache[V1], now) = "Stale"
  /\ versionsCache.data # None /\ versionsCache.timestamp = now

\* the step is a call of a cached entry point
C29_Access == accessCount' = accessCount + 1 /\ lastAccess' # None

\* the key of the access made by the step
C29_Key == [cache |-> lastAccess'.cache, key |-> lastAccess'.key]

\* C29: a cache hit returns the stored data, starts no call of the resolver
\* and leaves every entry, data and timestamp, as it was; an access to a
\* document key that holds a stored null younger than the time to live is
\* such a hit and returns null.
C29_HitServesStoredEntryUntouched ==
  [][/\ (C29_Access /\ lastAccess'.hit) =>
          /\ C21_EntryOf(versionsCache, allDocsCache, docBySlugCache, C29_Key) # None
          /\ lastAccess'.data
               = C21_EntryOf(versionsCache, allDocsCache, docBySlugCache, C29_Key).data
          /\ pending' = pending
          /\ UNCHANGED <<versionsCache, allDocsCache, docBySlugCache>>
     /\ (/\ C29_Access /\ lastAccess'.cache = "docBySlug"
         /\ docBySlugCache[lastAccess'.key] # None
         /\ docBySlugCache[lastAccess'.key].data = None
         /\ now - docBySlugCache[lastAccess'.key].timestamp < CACHE_TTL)
          => lastAccess'.hit /\ lastAccess'.data = None]_vars

\* witness of C29: a document key holds null stored at an earlier time, and
\* the last access, later but before expiry, was a hit that returned null
C29_Witness ==
  /\ lastAccess # None /\ lastAccess.cache = "docBySlug" /\ lastAccess.hit
  /\ lastAccess.data = None
  /\ docBySlugCache[lastAccess.key] # None
  /\ docBySlugCache[lastAccess.key].timestamp < lastAccess.at
  /\ pending = {}

\* witness of C29: a corpus list was served from the cache
C29_WitnessAllDocs ==
  /\ lastAccess # None /\ lastAccess.cache = "allDocs" /\ lastAccess.hit
  /\ lastAccess.data # None /\ lastAccess.stamp < lastAccess.at

-----------------------------------------------------------------------------
(* Security proxy (middleware/security.ts): path validation and security   *)
(* headers.  A header map is a function from header names to values.       *)

SECURITY_HEADERS ==
  ("X-Frame-Options" :> "SAMEORIGIN")
  @@ ("X-Content-Type-Options" :> "nosniff")
  @@ ("X-XSS-Protection" :> "1; mode=block")
  @@ ("Referrer-Policy" :> "strict-origin-when-cross-origin")
  @@ ("Permissions-Policy" :> "camera=(), microphone=(), geolocation=()")

\* the directives in the order of the object literal
CSP_DIRECTIVES ==
  << <<"default-src", <<"'self'">> >>,
     <<"script-src", <<"'self'", "'unsafe-inline'", "'unsafe-eval'">> >>,
     <<"style-src", <<"'self'", "'unsafe-inline'">> >>,
     <<"img-src", <<"'self'", "data:", "https:">> >>,
     <<"font-src", <<"'self'", "data:">> >>,
     <<"connect-src", <<"'self'">> >>,
     <<"frame-src", <<"'self'">> >>,
     <<"object-src", <<"'none'">> >>,
     <<"base-uri", <<"'self'">> >>,
     <<"form-action", <<"'self'">> >>,
     <<"frame-ancestors", <<"'self'">> >>,
     <<"upgrade-insecure-requests", <<>> >> >>

\* generateCSPHeader(undefined, production); the value is kept as the list
\* of its directives, which the code joins with "; "
generateCSPHeader(production) ==
  LET NotUnsafeEval(src) == src # "'unsafe-eval'" IN
  [i \in 1..Len(CSP_DIRECTIVES) |->
     IF production /\ CSP_DIRECTIVES[i][1] = "script-src"
     THEN <<CSP_DIRECTIVES[i][1], SelectSeq(CSP_DIRECTIVES[i][2], NotUnsafeEval)>>
     ELSE CSP_DIRECTIVES[i]]

\* options?.x with its default
OptionOr(options, field, default) ==
  IF options = None \/ options[field] = <<>> THEN default ELSE options[field][1]

\* response.headers.set for every entry of SECURITY_HEADERS, then for the
\* Content-Security-Policy
applySecurityHeaders(resp, options, env) ==
  LET csp == IF options # None /\ options.customCSP # <<>> THEN options.customCSP
             ELSE generateCSPHeader(OptionOr(options, "production", env = "production"))
  IN [resp EXCEPT !.headers =
        [k \in DOMAIN resp.headers \cup DOMAIN SECURITY_HEADERS
                \cup {"Content-Security-Policy"} |->
           IF k = "Content-Security-Policy" THEN csp
           ELSE IF k \in DOMAIN SECURITY_HEADERS THEN SECURITY_HEADERS[k]
           ELSE resp.headers[k]]]

\* validateRequestPath after `const decoded = decodeURIComponent(pathname)`
validateRequestPathDecoded(pathname, decoded) ==
  IF Includes(decoded, <<".", ".", "/">>) \/ Includes(decoded, <<".", ".", "\\">>)
  THEN [valid |-> FALSE, reason |-> "Path traversal detected"]
  ELSE IF \/ Includes(decoded, Enc2e \o Enc2e) \/ Includes(decoded, Enc252e \o Enc252e)
          \/ Includes(pathname, Enc2e \o Enc2e) \/ Includes(pathname, Enc252e \o Enc252e)
  THEN [valid |-> FALSE, reason |-> "Encoded path traversal detected"]
  ELSE IF Includes(decoded, <<"<nul>">>) \/ Includes(pathname, <<"%", "0", "0">>)
  THEN [valid |-> FALSE, reason |-> "Null byte injection detected"]
  ELSE [valid |-> TRUE]

\* decodeURIComponent throws URIError on a malformed escape; nothing in
\* validateRequestPath or securityProxy catches it
validateRequestPath(pathname) ==
  IF ~decodeURIComponent(pathname).ok THEN Thrown(URIError, <<>>)
  ELSE validateRequestPathDecoded(pathname, decodeURIComponent(pathname).path)

\* NextResponse.next()
NextResponseNext == [status |-> 200, body |-> <<>>, next |-> TRUE, headers |-> <<>>]

\* securityProxy after validateRequestPath returned or threw
securityProxyValidated(options, env, pathValidation) ==
  IF IsThrown(pathValidation) THEN pathValidation
  ELSE IF ~pathValidation.valid
  THEN [status |-> 400, body |-> "Bad Request", next |-> FALSE, headers |-> <<>>]
  ELSE applySecurityHeaders(NextResponseNext, options, env)

\* the function createSecurityProxy(options) returns, applied to a request
securityProxy(options, env, pathname) ==
  IF OptionOr(options, "strictPathValidation", TRUE)
  THEN securityProxyValidated(options, env, validateRequestPath(pathname))
  ELSE applySecurityHeaders(NextResponseNext, options, env)

-----------------------------------------------------------------------------
(* Specification of the security proxy: one request whose pathname is "/"  *)
(* followed by at most MaxPathTokens pieces passes through the proxy.      *)

MaxPathTokens == 3

PathTokens ==
  { <<"g">>, DotDot, <<"/">>, <<"\\">>, <<"%">>, <<"2", "e">>, Enc2e,
    <<"%", "2", "E">>, <<"%", "2", "5">>, <<"%", "0", "0">>, <<"%", "E", "9">> }

RequestPaths ==
  { <<"/">> \o Concat(ts) : ts \in UNION { [1..n -> PathTokens] : n \in 0..MaxPathTokens } }

ProxyOptions ==
  {None} \cup
  [ strictPathValidation : {<<>>, <<TRUE>>, <<FALSE>>},
    customCSP : {<<>>, << <<"default-src", <<"'none'">> >> >>},
    production : {<<>>, <<TRUE>>} ]

InitProxy ==
  /\ requestPath \in RequestPaths
  /\ proxyOptions \in ProxyOptions
  /\ response = None
  /\ fsFiles = <<>> /\ mdxOrder = <<>> /\ i18n = None /\ nodeEnv \in NodeEnvs
  /\ call = NoCall /\ result = NoResult /\ fsLog = <<>>
  /\ SanitizeIdle /\ ScanIdle /\ SidebarIdle /\ CacheIdle /\ SseIdle

CallSecurityProxy ==
  /\ response = None
  /\ response' = securityProxy(proxyOptions, nodeEnv, requestPath)
  /\ UNCHANGED <<requestPath, proxyOptions, sanitizeVars, scanVars, docsVars, sidebarVars,
                 cacheVars, sseVars>>

NextProxy == CallSecurityProxy

SpecProxy == InitProxy /\ [][NextProxy]_vars

\* the response is the rejection: status 400 with body "Bad Request"
C23_IsBadRequest(r) ==
  ~IsThrown(r) /\ r.status = 400 /\ r.body = "Bad Request" /\ ~r.next

\* the response passes the request on and carries every security header and
\* a Content-Security-Policy header
C23_IsPassThrough(r) ==
  /\ ~IsThrown(r) /\ r.next /\ r.status # 400
  /\ \A k \in DOMAIN SECURITY_HEADERS :
       k \in DOMAIN r.headers /\ r.headers[k] = SECURITY_HEADERS[k]
  /\ "Content-Security-Policy" \in DOMAIN r.headers
  /\ r.headers["Content-Security-Policy"] # <<>>

\* the pathname holds a traversal, plain or encoded, or a null byte
C23_Suspicious(pathname) ==
  \/ Includes(pathname, <<".", ".", "/">>) \/ Includes(pathname, <<".", ".", "\\">>)
  \/ Includes(pathname, Enc2e \o Enc2e) \/ Includes(pathname, Enc252e \o Enc252e)
  \/ Includes(pathname, <<"%", "0", "0">>)

\* C23: with strict path validation on, every request receives either the
\* 400 Bad Request response or the pass-through response with every security
\* header and a Content-Security-Policy header, never both and never neither;
\* a pathname with a plain or encoded traversal or a null byte receives 400.
C23_RejectedOrPassedWithHeaders ==
  (response # None /\ OptionOr(proxyOptions, "strictPathValidation", TRUE)) =>
    /\ C23_IsBadRequest(response) # C23_IsPassThrough(response)
    /\ C23_Suspicious(requestPath) => C23_IsBadRequest(response)

-----------------------------------------------------------------------------
(* Development watch endpoint (app/api/mdx-watch route): a Server-Sent     *)
(* Events stream per GET, each with its own recursive fs.watch on docs/.   *)
(* Stream i and the watcher created in its start() share the index i.      *)

MaxStreams == 2
MaxMessages == 1

ConnectedMessage == [type |-> "connected"]

\* GET; watchOk says whether fs.watch in start() returned a watcher (it
\* throws when docs/ is missing, and the exception leaves the constructor of
\* the stream and GET)
GET(watchOk) ==
  /\ IF nodeEnv # "development"
     THEN /\ lastStatus' = 404
          /\ UNCHANGED <<streams, activeWatchers, openWatchers>>
     ELSE /\ Len(streams) < MaxStreams
          /\ IF watchOk
             THEN /\ streams' = Append(streams, [state |-> "readable",
                                                 queue |-> <<ConnectedMessage>>])
                  /\ activeWatchers' = activeWatchers \cup {Len(streams) + 1}
                  /\ openWatchers' = openWatchers \cup {Len(streams) + 1}
                  /\ lastStatus' = 200
             ELSE /\ lastStatus' = 500
                  /\ UNCHANGED <<streams, activeWatchers, openWatchers>>
  /\ UNCHANGED <<sanitizeVars, scanVars, docsVars, sidebarVars, cacheVars, proxyVars>>

\* the client of stream i disconnects: the stream is cancelled and cancel()
\* runs, which logs
cancel(i) ==
  /\ i \in 1..Len(streams) /\ streams[i].state = "readable"
  /\ streams' = [streams EXCEPT ![i].state = "cancelled"]
  /\ UNCHANGED <<activeWatchers, openWatchers, lastStatus,
                 sanitizeVars, scanVars, docsVars, sidebarVars, cacheVars, proxyVars>>

\* the callback of watcher i; controller.enqueue throws on a stream that is
\* no longer readable and the callback catches it
WatchListener(i, eventType, filename) ==
  /\ i \in openWatchers
  /\ IF /\ filename # <<>> /\ (EndsWith(filename, MdxExt) \/ EndsWith(filename, JsonExt))
        /\ streams[i].state = "readable"
     THEN /\ Len(streams[i].queue) <= MaxMessages
          /\ streams' = [streams EXCEPT ![i].queue =
                           Append(@, [type |-> "change", file |-> filename,
                                      eventType |-> eventType])]
     ELSE UNCHANGED streams
  /\ UNCHANGED <<activeWatchers, openWatchers, lastStatus,
                 sanitizeVars, scanVars, docsVars, sidebarVars, cacheVars, proxyVars>>

\* watcher i emits 'error': cleanupWatcher deletes and closes it and closes
\* the controller (which throws, caught, if the stream is not readable)
cleanupWatcher(i) ==
  /\ i \in openWatchers
  /\ activeWatchers' = activeWatchers \ {i}
  /\ openWatchers' = openWatchers \ {i}
  /\ streams' = [streams EXCEPT ![i].state = IF @ = "readable" THEN "closed" ELSE @]
  /\ UNCHANGED <<lastStatus, sanitizeVars, scanVars, docsVars, sidebarVars, cacheVars, proxyVars>>

\* the handler of SIGINT, SIGTERM and beforeExit, registered in development
cleanup ==
  /\ nodeEnv = "development"
  /\ activeWatchers # {}
  /\ openWatchers' = openWatchers \ activeWatchers
  /\ activeWatchers' = {}
  /\ UNCHANGED <<streams, lastStatus,
                 sanitizeVars, scanVars, docsVars, sidebarVars, cacheVars, proxyVars>>

-----------------------------------------------------------------------------
(* Specification of the watch endpoint: any sequence of at most MaxStreams *)
(* requests, client disconnects, watch events, watcher errors and          *)
(* termination signals.                                                    *)

InitWatch ==
  /\ fsFiles = <<>> /\ mdxOrder = <<>> /\ i18n = None /\ nodeEnv \in NodeEnvs
  /\ call = NoCall /\ result = NoResult /\ fsLog = <<>>
  /\ SseIdle
  /\ SanitizeIdle /\ ScanIdle /\ SidebarIdle /\ CacheIdle /\ ProxyIdle

NextWatch ==
  \/ \E watchOk \in BOOLEAN : GET(watchOk)
  \/ \E i \in 1..MaxStreams : cancel(i)
  \/ \E i \in 1..MaxStreams, eventType \in {"rename", "change"}, filename \in WatchedNames :
       WatchListener(i, eventType, filename)
  \/ \E i \in 1..MaxStreams : cleanupWatcher(i)
  \/ cleanup

SpecWatch == InitWatch /\ [][NextWatch]_vars

\* the streams whose client is connected
C27_Connected == { i \in 1..Len(streams) : streams[i].state = "readable" }

\* C27: the watchers that are open, and those in activeWatchers, are never
\* more than the connected streams (a watcher does not outlive its client's
\* connection); outside development GET answers 404 and no watcher exists.
C27_NoWatcherWithoutClient ==
  /\ Cardinality(openWatchers) <= Cardinality(C27_Connected)
  /\ Cardinality(activeWatchers) <= Cardinality(C27_Connected)
  /\ nodeEnv # "development" =>
       /\ openWatchers = {} /\ activeWatchers = {} /\ streams = <<>>
       /\ lastStatus \in {0, 404}

-----------------------------------------------------------------------------
(* Specification of the content check: validateMDXSecurity is applied to a *)
(* body that is any concatenation of at most MaxBodyTokens pieces.         *)

MaxBodyTokens == 3

BodyTokens ==
  { <<"x">>, <<" ">>, ScriptOpen \o <<">">> \o ScriptClose, ScriptOpen \o <<">">>, ScriptClose,
    <<"<", "s", "c", "r">>, <<"i", "p", "t", ">">>,
    JsProto, <<"j", "a", "v", "a">>, <<"s", "c", "r", "i", "p", "t", ":">>,
    <<" ", "o", "n", "c", "l", "i", "c", "k", "=">>, <<"'", "x", "'">> }

Bodies == { Concat(ts) : ts \in UNION { [1..n -> BodyTokens] : n \in 0..MaxBodyTokens } }

InitSecurity ==
  /\ fsFiles = <<>> /\ mdxOrder = <<>> /\ i18n = None /\ nodeEnv \in NodeEnvs
  /\ call = NoCall /\ result = NoResult /\ fsLog = <<>>
  /\ SanitizeIdle /\ ScanIdle /\ SidebarIdle /\ CacheIdle /\ ProxyIdle /\ SseIdle

\* validateMDXSecurity(content, { strictMode })
CallValidateMDXSecurity ==
  /\ call = NoCall
  /\ \E content \in Bodies, strictMode \in BOOLEAN :
       /\ call' = [op |-> "validateMDXSecurity", content |-> content,
                   strictMode |-> strictMode]
       /\ result' = [doc |-> None, docs |-> <<>>,
                     security |-> validateMDXSecurity(content, strictMode)]
  /\ UNCHANGED <<fsFiles, mdxOrder, i18n, nodeEnv, fsLog,
                 sanitizeVars, scanVars, sidebarVars, cacheVars, proxyVars, sseVars>>

NextSecurity == CallValidateMDXSecurity

SpecSecurity == InitSecurity /\ [][NextSecurity]_vars

\* C24: the sanitized output of validateMDXSecurity in non-strict mode holds
\* no script tag, no inline on<event>= handler and no javascript: protocol,
\* whatever the body.
C24_SanitizedIsHarmless ==
  (call.op = "validateMDXSecurity" /\ ~call.strictMode) =>
    /\ result.security.valid
    /\ ~Includes(result.security.sanitized, ScriptOpen \o <<">">>)
    /\ ~Includes(result.security.sanitized, JsProto)
    /\ \A i \in 1..Len(result.security.sanitized) :
         ~OnHandlerAt(result.security.sanitized, i)

-----------------------------------------------------------------------------
(* Specification of the sanitizer: the argument is any concatenation of at *)
(* most MaxTokens pieces, then sanitizePath is applied to it.              *)

MaxTokens == 4

Tokens ==
  { <<"g">>, <<".">>, DotDot, <<"/">>, <<"\\">>, <<"%">>, <<"2", "e">>,
    <<"%", "2", "e">>, <<"%", "2", "E">>, <<"%", "2", "5">>,
    <<"%", "2", "f">>, <<"%", "5", "c">> }

TokenSeqs == UNION { [1..n -> Tokens] : n \in 0..MaxTokens }

InitSanitize ==
  /\ userPath \in { Concat(ts) : ts \in TokenSeqs }
  /\ sanitizeResult = NotCalled
  /\ allowedRoot = <<>> /\ within = None
  /\ DocsIdle /\ SidebarIdle /\ CacheIdle /\ ProxyIdle /\ SseIdle /\ ScanIdle

CallSanitizePath ==
  /\ sanitizeResult = NotCalled
  /\ sanitizeResult' = sanitizePath(userPath)
  /\ UNCHANGED <<userPath, allowedRoot, within, docsVars, sidebarVars, cacheVars,
                 proxyVars, sseVars, scanVars>>

NextSanitize == CallSanitizePath

SpecSanitize == InitSanitize /\ [][NextSanitize]_vars

\* The rejected class of C2, stated on the decoded argument.
C2_Rejected(decoded) ==
  \/ Includes(decoded, <<".", ".", "/">>)
  \/ Includes(decoded, <<".", ".", "\\">>)
  \/ Includes(decoded, <<"%", "2", "e", "%", "2", "e">>)
  \/ Includes(decoded, <<"%", "2", "5", "2", "e", "%", "2", "5", "2", "e">>)
  \/ (Len(decoded) > 0 /\ decoded[1] = "/")

\* A plain segment: a non-empty name without separator or escape character
\* that does not begin with a dot (".", ".." and dot-led names are special).
C2_PlainSegment(seg) ==
  /\ Len(seg) > 0
  /\ seg[1] # "."
  /\ \A i \in 1..Len(seg) : seg[i] \notin {"/", "\\", "%"}

C2_PlainPath(p) ==
  LET segs == Split(ReplaceBackslashes(p), "/")
  IN \A i \in 1..Len(segs) : C2_PlainSegment(segs[i])

\* C2: an argument whose URL-decoded form contains "../" or "..\", a literal
\* %2e%2e or %252e%252e, or is absolute, makes sanitizePath fail; every other
\* relative path of plain segments is returned with forward slashes.
C2_SanitizeRejectsTraversal ==
  sanitizeResult # NotCalled =>
    LET dec == decodeURIComponent(userPath) IN
    /\ (dec.ok /\ C2_Rejected(dec.path)) => ~sanitizeResult.ok
    /\ (dec.ok /\ ~C2_Rejected(dec.path) /\ C2_PlainPath(userPath)) =>
          sanitizeResult = Ok(ReplaceBackslashes(userPath))

\* witness of C2: the double-encoded traversal is rejected
C2_Witness ==
  /\ userPath = <<"%", "2", "5", "2", "e", "%", "2", "5", "2", "e">>
  /\ sanitizeResult = Err(TraversalDetected)

-----------------------------------------------------------------------------
(* Specification of the directory check: validatePathWithinDirectory is    *)
(* applied to a drawn path and a drawn directory, and readDocFromFile to a *)
(* drawn absolute file path on a tree with files inside and outside of     *)
(* DOCS_DIR.                                                               *)

Root == <<"/">>
Docs2 == DOCS_DIR \o <<"2">>

WithinRoots == { DOCS_DIR, DOCS_DIR \o <<"/">>, Root }

WithinPaths ==
  { <<>>, <<".">>, <<"a">>, V1 \o <<"/", "a">> \o MdxExt, DotDot,
    DotDot \o DOCS_DIR, DotDot \o Docs2, DotDot \o Docs2 \o <<"/", "x">>,
    DotDot \o DOCS_DIR \o <<"/", "a">>, <<"a", "/">> \o DotDot \o <<"/">> \o DotDot,
    DOCS_DIR, Docs2, DOCS_DIR \o <<"/", "a">>, Root, <<"/", "e", "t", "c">> }

F_outside == Docs2 \o <<"/", "x">> \o MdxExt
F_absent == V1Dir \o Missing \o MdxExt

WithinTree == (F_a :> Plain) @@ (F_outside :> Plain)

ReadPaths == { F_a, F_outside, F_absent }

InitWithin ==
  /\ userPath \in WithinPaths
  /\ allowedRoot \in WithinRoots
  /\ sanitizeResult = NotCalled
  /\ within = None
  /\ fsFiles = WithinTree
  /\ mdxOrder = <<>> /\ i18n = None /\ nodeEnv \in NodeEnvs
  /\ call = NoCall /\ result = NoResult /\ fsLog = <<>>
  /\ SidebarIdle /\ CacheIdle /\ ProxyIdle /\ SseIdle /\ ScanIdle

CallValidatePathWithinDirectory ==
  /\ within = None
  /\ within' = [value |-> validatePathWithinDirectory(userPath, allowedRoot)]
  /\ UNCHANGED <<userPath, sanitizeResult, allowedRoot, docsVars, sidebarVars, cacheVars,
                 proxyVars, sseVars, scanVars>>

CallReadDocFromFile ==
  /\ call = NoCall
  /\ \E filePath \in ReadPaths :
       /\ call' = [op |-> "readDocFromFile", slug |-> <<"a">>, version |-> <<>>,
                   locale |-> <<>>, filePath |-> filePath]
       /\ ReturnDoc(readDocFromFile(fsFiles, nodeEnv, filePath, <<"a">>))
  /\ UNCHANGED <<fsFiles, mdxOrder, i18n, nodeEnv, sanitizeVars, scanVars, proxyVars, sseVars, sidebarVars, cacheVars>>

NextWithin == CallValidatePathWithinDirectory \/ CallReadDocFromFile

SpecWithin == InitWithin /\ [][NextWithin]_vars

\* the segments of an absolute path
C18_Segments(p) ==
  LET NonEmpty(x) == x # <<>> IN SelectSeq(Split(p, "/"), NonEmpty)

\* p, resolved against root, is the resolved root or lies below it
C18_Descendant(p, root) ==
  LET ps == C18_Segments(resolve(root, p))
      rs == C18_Segments(resolve(root, <<>>))
  IN Len(rs) <= Len(ps) /\ SubSeq(ps, 1, Len(rs)) = rs

\* C18: validatePathWithinDirectory(p, root) is true exactly when p resolved
\* against root is the resolved root or a descendant of it, for every root
\* (a sibling whose name begins with the root's name is not within), and
\* readDocFromFile returns null without reading a file that fails the check.
C18_WithinIffDescendant ==
  /\ within # None => (within.value <=> C18_Descendant(userPath, allowedRoot))
  /\ (within # None /\ allowedRoot = DOCS_DIR /\ userPath = DotDot \o Docs2 \o <<"/", "x">>)
       => ~within.value
  /\ (call.op = "readDocFromFile" /\ ~C18_Descendant(call.filePath, DOCS_DIR))
       => /\ result.doc = None
          /\ \A i \in 1..Len(fsLog) : fsLog[i].op # "readFileSync"

====
